---- MODULE Spec2Model ----
(***************************************************************************)
(* A model of jamo.py (python-jamo): the classification of a character by  *)
(* code point, the arithmetic between a Hangul syllable and its Jamo, the  *)
(* bridge between Jamo and Hangul Compatibility Jamo (HCJ) through the     *)
(* characters' Unicode names, and the decomposition and composition of     *)
(* compound Jamo.                                                          *)
(*                                                                         *)
(* A character (a Python str of length 1) is its code point.  A Unicode    *)
(* name, and a string of hex code points, is the sequence of its letters.  *)
(* The functions of jamo.py are operators; one that can raise returns a    *)
(* record whose field exc names the exception ("" when it returns).  The   *)
(* state machine is a caller that invokes the public functions one call    *)
(* after the other and may pass a call's result on to the next call.       *)
(***************************************************************************)
EXTENDS Integers, Sequences, FiniteSets, TLC

VARIABLES
  call,   \* the function called last ("" before the first call)
  args,   \* its arguments
  ret,    \* what it returned or raised
  prev    \* the arguments of the call whose result this call was given ("" when none)

vars == <<call, args, ret, prev>>

\* ---------------------------------------------------------------------
\* Python values and outcomes
\* ---------------------------------------------------------------------

\* A function's outcome: a value of Python type `type`, or an exception.
Return(type, val) == [exc |-> "", type |-> type, val |-> val]
Raise(exc) == [exc |-> exc, type |-> "", val |-> <<>>]

\* ---------------------------------------------------------------------
\* Python str operations on a sequence of letters
\* ---------------------------------------------------------------------

\* s[i:i+len(pat)] == pat
StartsAt(s, pat, i) ==
  /\ i >= 1
  /\ i + Len(pat) - 1 <= Len(s)
  /\ SubSeq(s, i, i + Len(pat) - 1) = pat

\* pat in s
Contains(s, pat) == \E i \in 1..(Len(s) - Len(pat) + 1) : StartsAt(s, pat, i)

\* s.find(pat) from position i on, as a 1-based index (0 when absent)
RECURSIVE FindFrom(_, _, _)
FindFrom(s, pat, i) ==
  IF i + Len(pat) - 1 > Len(s) THEN 0
  ELSE IF StartsAt(s, pat, i) THEN i
  ELSE FindFrom(s, pat, i + 1)

\* s.split(sep) for a separator of one letter
RECURSIVE Split(_, _)
Split(s, sep) ==
  LET i == FindFrom(s, <<sep>>, 1)
  IN  IF i = 0 THEN <<s>>
      ELSE <<SubSeq(s, 1, i - 1)>> \o Split(SubSeq(s, i + 1, Len(s)), sep)

\* sep.join(words)
RECURSIVE Join(_, _)
Join(words, sep) ==
  IF words = <<>> THEN <<>>
  ELSE IF Len(words) = 1 THEN words[1]
  ELSE words[1] \o sep \o Join(Tail(words), sep)

\* s.replace(pat, "") for a non-empty pat
RECURSIVE Remove(_, _)
Remove(s, pat) ==
  LET i == FindFrom(s, pat, 1)
  IN  IF i = 0 THEN s
      ELSE SubSeq(s, 1, i - 1) \o Remove(SubSeq(s, i + Len(pat), Len(s)), pat)

\* The letters the regular expression class \w matches, among the letters of
\* a Unicode name (capitals, digits, space, hyphen): all but space and hyphen.
IsWordLetter(ch) == ch \notin {" ", "-"}

\* The end of the run of \w letters that starts at position i (i - 1 when
\* the letter at i is not a \w letter): the greedy match of \w+.
RECURSIVE WordEnd(_, _)
WordEnd(s, i) ==
  IF i <= Len(s) /\ IsWordLetter(s[i]) THEN WordEnd(s, i + 1) ELSE i - 1

HANGUL_ == <<"H","A","N","G","U","L"," ">>

\* re.sub("(?<=HANGUL )(\w+)", repl, name): every run of \w letters that
\* directly follows "HANGUL " is replaced by repl, scanning left to right
\* from position i; the scan resumes after a replaced run.
RECURSIVE SubFrom(_, _, _)
SubFrom(name, repl, i) ==
  IF i > Len(name) THEN <<>>
  ELSE IF /\ i > Len(HANGUL_)
          /\ SubSeq(name, i - Len(HANGUL_), i - 1) = HANGUL_
          /\ IsWordLetter(name[i])
       THEN repl \o SubFrom(name, repl, WordEnd(name, i) + 1)
       ELSE <<name[i]>> \o SubFrom(name, repl, i + 1)

re_sub_HANGUL(repl, name) == SubFrom(name, repl, 1)

\* ---------------------------------------------------------------------
\* The Unicode Character Database as jamo.py reads it through unicodedata
\* (Unicode 14.0.0).  A name is the sequence of its letters; an unassigned
\* code point has the empty name.  Entry i of a table names code point
\* (first code point of the block) + i - 1.
\* ---------------------------------------------------------------------


\* unicodedata.name over U+1100..U+11FF (Hangul Jamo)
JamoNames ==
  <<
  <<"H","A","N","G","U","L"," ","C","H","O","S","E","O","N","G"," ","K","I","Y","E","O","K">>,
  <<"H","A","N","G","U","L"," ","C","H","O","S","E","O","N","G"," ","S","S","A","N","G","K","I","Y","E","O","K">>,
  <<"H","A","N","G","U","L"," ","C","H","O","S","E","O","N","G"," ","N","I","E","U","N">>,
  <<"H","A","N","G","U","L"," ","C","H","O","S","E","O","N","G"," ","T","I","K","E","U","T">>,
  <<"H","A","N","G","U","L"," ","C","H","O","S","E","O","N","G"," ","S","S","A","N","G","T","I","K","E","U","T">>,
  <<"H","A","N","G","U","L"," ","C","H","O","S","E","O","N","G"," ","R","I","E","U","L">>,
  <<"H","A","N","G","U","L"," ","C","H","O","S","E","O","N","G"," ","M","I","E","U","M">>,
  <<"H","A","N","G","U","L"," ","C","H","O","S","E","O","N","G"," ","P","I","E","U","P">>,
  <<"H","A","N","G","U","L"," ","C","H","O","S","E","O","N","G"," ","S","S","A","N","G","P","I","E","U","P">>,
  <<"H","A","N","G","U","L"," ","C","H","O","S","E","O","N","G"," ","S","I","O","S">>,
  <<"H","A","N","G","U","L"," ","C","H","O","S","E","O","N","G"," ","S","S","A","N","G","S","I","O","S">>,
  <<"H","A","N","G","U","L"," ","C","H","O","S","E","O","N","G"," ","I","E","U","N","G">>,
  <<"H","A","N","G","U","L"," ","C","H","O","S","E","O","N","G"," ","C","I","E","U","C">>,
  <<"H","A","N","G","U","L"," ","C","H","O","S","E","O","N","G"," ","S","S","A","N","G","C","I","E","U","C">>,
  <<"H","A","N","G","U","L"," ","C","H","O","S","E","O","N","G"," ","C","H","I","E","U","C","H">>,
  <<"H","A","N","G","U","L"," ","C","H","O","S","E","O","N","G"," ","K","H","I","E","U","K","H">>,
  <<"H","A","N","G","U","L"," ","C","H","O","S","E","O","N","G"," ","T","H","I","E","U","T","H">>,
  <<"H","A","N","G","U","L"," ","C","H","O","S","E","O","N","G"," ","P","H","I","E","U","P","H">>,
  <<"H","A","N","G","U","L"," ","C","H","O","S","E","O","N","G"," ","H","I","E","U","H">>,
  <<"H","A","N","G","U","L"," ","C","H","O","S","E","O","N","G"," ","N","I","E","U","N","-","K","I","Y","E","O","K">>,
  <<"H","A","N","G","U","L"," ","C","H","O","S","E","O","N","G"," ","S","S","A","N","G","N","I","E","U","N">>,
  <<"H","A","N","G","U","L"," ","C","H","O","S","E","O","N","G"," ","N","I","E","U","N","-","T","I","K","E","U","T">>,
  <<"H","A","N","G","U","L"," ","C","H","O","S","E","O","N","G"," ","N","I","E","U","N","-","P","I","E","U","P">>,
  <<"H","A","N","G","U","L"," ","C","H","O","S","E","O","N","G"," ","T","I","K","E","U","T","-","K","I","Y","E","O","K">>,
  <<"H","A","N","G","U","L"," ","C","H","O","S","E","O","N","G"," ","R","I","E","U","L","-","N","I","E","U","N">>,
  <<"H","A","N","G","U","L"," ","C","H","O","S","E","O","N","G"," ","S","S","A","N","G","R","I","E","U","L">>,
  <<"H","A","N","G","U","L"," ","C","H","O","S","E","O","N","G"," ","R","I","E","U","L","-","H","I","E","U","H">>,
  <<"H","A","N","G","U","L"," ","C","H","O","S","E","O","N","G"," ","K","A","P","Y","E","O","U","N","R","I","E","U","L">>,
  <<"H","A","N","G","U","L"," ","C","H","O","S","E","O","N","G"," ","M","I","E","U","M","-","P","I","E","U","P">>,
  <<"H","A","N","G","U","L"," ","C","H","O","S","E","O","N","G"," ","K","A","P","Y","E","O","U","N","M","I","E","U","M">>,
  <<"H","A","N","G","U","L"," ","C","H","O","S","E","O","N","G"," ","P","I","E","U","P","-","K","I","Y","E","O","K">>,
  <<"H","A","N","G","U","L"," ","C","H","O","S","E","O","N","G"," ","P","I","E","U","P","-","N","I","E","U","N">>,
  <<"H","A","N","G","U","L"," ","C","H","O","S","E","O","N","G"," ","P","I","E","U","P","-","T","I","K","E","U","T">>,
  <<"H","A","N","G","U","L"," ","C","H","O","S","E","O","N","G"," ","P","I","E","U","P","-","S","I","O","S">>,
  <<"H","A","N","G","U","L"," ","C","H","O","S","E","O","N","G"," ","P","I","E","U","P","-","S","I","O","S","-","K","I","Y","E","O","K">>,
  <<"H","A","N","G","U","L"," ","C","H","O","S","E","O","N","G"," ","P","I","E","U","P","-","S","I","O","S","-","T","I","K","E","U","T">>,
  <<"H","A","N","G","U","L"," ","C","H","O","S","E","O","N","G"," ","P","I","E","U","P","-","S","I","O","S","-","P","I","E","U","P">>,
  <<"H","A","N","G","U","L"," ","C","H","O","S","E","O","N","G"," ","P","I","E","U","P","-","S","S","A","N","G","S","I","O","S">>,
  <<"H","A","N","G","U","L"," ","C","H","O","S","E","O","N","G"," ","P","I","E","U","P","-","S","I","O","S","-","C","I","E","U","C">>,
  <<"H","A","N","G","U","L"," ","C","H","O","S","E","O","N","G"," ","P","I","E","U","P","-","C","I","E","U","C">>,
  <<"H","A","N","G","U","L"," ","C","H","O","S","E","O","N","G"," ","P","I","E","U","P","-","C","H","I","E","U","C","H">>,
  <<"H","A","N","G","U","L"," ","C","H","O","S","E","O","N","G"," ","P","I","E","U","P","-","T","H","I","E","U","T","H">>,
  <<"H","A","N","G","U","L"," ","C","H","O","S","E","O","N","G"," ","P","I","E","U","P","-","P","H","I","E","U","P","H">>,
  <<"H","A","N","G","U","L"," ","C","H","O","S","E","O","N","G"," ","K","A","P","Y","E","O","U","N","P","I","E","U","P">>,
  <<"H","A","N","G","U","L"," ","C","H","O","S","E","O","N","G"," ","K","A","P","Y","E","O","U","N","S","S","A","N","G","P","I","E","U","P">>,
  <<"H","A","N","G","U","L"," ","C","H","O","S","E","O","N","G"," ","S","I","O","S","-","K","I","Y","E","O","K">>,
  <<"H","A","N","G","U","L"," ","C","H","O","S","E","O","N","G"," ","S","I","O","S","-","N","I","E","U","N">>,
  <<"H","A","N","G","U","L"," ","C","H","O","S","E","O","N","G"," ","S","I","O","S","-","T","I","K","E","U","T">>,
  <<"H","A","N","G","U","L"," ","C","H","O","S","E","O","N","G"," ","S","I","O","S","-","R","I","E","U","L">>,
  <<"H","A","N","G","U","L"," ","C","H","O","S","E","O","N","G"," ","S","I","O","S","-","M","I","E","U","M">>,
  <<"H","A","N","G","U","L"," ","C","H","O","S","E","O","N","G"," ","S","I","O","S","-","P","I","E","U","P">>,
  <<"H","A","N","G","U","L"," ","C","H","O","S","E","O","N","G"," ","S","I","O","S","-","P","I","E","U","P","-","K","I","Y","E","O","K">>,
  <<"H","A","N","G","U","L"," ","C","H","O","S","E","O","N","G"," ","S","I","O","S","-","S","S","A","N","G","S","I","O","S">>,
  <<"H","A","N","G","U","L"," ","C","H","O","S","E","O","N","G"," ","S","I","O","S","-","I","E","U","N","G">>,
  <<"H","A","N","G","U","L"," ","C","H","O","S","E","O","N","G"," ","S","I","O","S","-","C","I","E","U","C">>,
  <<"H","A","N","G","U","L"," ","C","H","O","S","E","O","N","G"," ","S","I","O","S","-","C","H","I","E","U","C","H">>,
  <<"H","A","N","G","U","L"," ","C","H","O","S","E","O","N","G"," ","S","I","O","S","-","K","H","I","E","U","K","H">>,
  <<"H","A","N","G","U","L"," ","C","H","O","S","E","O","N","G"," ","S","I","O","S","-","T","H","I","E","U","T","H">>,
  <<"H","A","N","G","U","L"," ","C","H","O","S","E","O","N","G"," ","S","I","O","S","-","P","H","I","E","U","P","H">>,
  <<"H","A","N","G","U","L"," ","C","H","O","S","E","O","N","G"," ","S","I","O","S","-","H","I","E","U","H">>,
  <<"H","A","N","G","U","L"," ","C","H","O","S","E","O","N","G"," ","C","H","I","T","U","E","U","M","S","I","O","S">>,
  <<"H","A","N","G","U","L"," ","C","H","O","S","E","O","N","G"," ","C","H","I","T","U","E","U","M","S","S","A","N","G","S","I","O","S">>,
  <<"H","A","N","G","U","L"," ","C","H","O","S","E","O","N","G"," ","C","E","O","N","G","C","H","I","E","U","M","S","I","O","S">>,
  <<"H","A","N","G","U","L"," ","C","H","O","S","E","O","N","G"," ","C","E","O","N","G","C","H","I","E","U","M","S","S","A","N","G","S","I","O","S">>,
  <<"H","A","N","G","U","L"," ","C","H","O","S","E","O","N","G"," ","P","A","N","S","I","O","S">>,
  <<"H","A","N","G","U","L"," ","C","H","O","S","E","O","N","G"," ","I","E","U","N","G","-","K","I","Y","E","O","K">>,
  <<"H","A","N","G","U","L"," ","C","H","O","S","E","O","N","G"," ","I","E","U","N","G","-","T","I","K","E","U","T">>,
  <<"H","A","N","G","U","L"," ","C","H","O","S","E","O","N","G"," ","I","E","U","N","G","-","M","I","E","U","M">>,
  <<"H","A","N","G","U","L"," ","C","H","O","S","E","O","N","G"," ","I","E","U","N","G","-","P","I","E","U","P">>,
  <<"H","A","N","G","U","L"," ","C","H","O","S","E","O","N","G"," ","I","E","U","N","G","-","S","I","O","S">>,
  <<"H","A","N","G","U","L"," ","C","H","O","S","E","O","N","G"," ","I","E","U","N","G","-","P","A","N","S","I","O","S">>,
  <<"H","A","N","G","U","L"," ","C","H","O","S","E","O","N","G"," ","S","S","A","N","G","I","E","U","N","G">>,
  <<"H","A","N","G","U","L"," ","C","H","O","S","E","O","N","G"," ","I","E","U","N","G","-","C","I","E","U","C">>,
  <<"H","A","N","G","U","L"," ","C","H","O","S","E","O","N","G"," ","I","E","U","N","G","-","C","H","I","E","U","C","H">>,
  <<"H","A","N","G","U","L"," ","C","H","O","S","E","O","N","G"," ","I","E","U","N","G","-","T","H","I","E","U","T","H">>,
  <<"H","A","N","G","U","L"," ","C","H","O","S","E","O","N","G"," ","I","E","U","N","G","-","P","H","I","E","U","P","H">>,
  <<"H","A","N","G","U","L"," ","C","H","O","S","E","O","N","G"," ","Y","E","S","I","E","U","N","G">>,
  <<"H","A","N","G","U","L"," ","C","H","O","S","E","O","N","G"," ","C","I","E","U","C","-","I","E","U","N","G">>,
  <<"H","A","N","G","U","L"," ","C","H","O","S","E","O","N","G"," ","C","H","I","T","U","E","U","M","C","I","E","U","C">>,
  <<"H","A","N","G","U","L"," ","C","H","O","S","E","O","N","G"," ","C","H","I","T","U","E","U","M","S","S","A","N","G","C","I","E","U","C">>,
  <<"H","A","N","G","U","L"," ","C","H","O","S","E","O","N","G"," ","C","E","O","N","G","C","H","I","E","U","M","C","I","E","U","C">>,
  <<"H","A","N","G","U","L"," ","C","H","O","S","E","O","N","G"," ","C","E","O","N","G","C","H","I","E","U","M","S","S","A","N","G","C","I","E","U","C">>,
  <<"H","A","N","G","U","L"," ","C","H","O","S","E","O","N","G"," ","C","H","I","E","U","C","H","-","K","H","I","E","U","K","H">>,
  <<"H","A","N","G","U","L"," ","C","H","O","S","E","O","N","G"," ","C","H","I","E","U","C","H","-","H","I","E","U","H">>,
  <<"H","A","N","G","U","L"," ","C","H","O","S","E","O","N","G"," ","C","H","I","T","U","E","U","M","C","H","I","E","U","C","H">>,
  <<"H","A","N","G","U","L"," ","C","H","O","S","E","O","N","G"," ","C","E","O","N","G","C","H","I","E","U","M","C","H","I","E","U","C","H">>,
  <<"H","A","N","G","U","L"," ","C","H","O","S","E","O","N","G"," ","P","H","I","E","U","P","H","-","P","I","E","U","P">>,
  <<"H","A","N","G","U","L"," ","C","H","O","S","E","O","N","G"," ","K","A","P","Y","E","O","U","N","P","H","I","E","U","P","H">>,
  <<"H","A","N","G","U","L"," ","C","H","O","S","E","O","N","G"," ","S","S","A","N","G","H","I","E","U","H">>,
  <<"H","A","N","G","U","L"," ","C","H","O","S","E","O","N","G"," ","Y","E","O","R","I","N","H","I","E","U","H">>,
  <<"H","A","N","G","U","L"," ","C","H","O","S","E","O","N","G"," ","K","I","Y","E","O","K","-","T","I","K","E","U","T">>,
  <<"H","A","N","G","U","L"," ","C","H","O","S","E","O","N","G"," ","N","I","E","U","N","-","S","I","O","S">>,
  <<"H","A","N","G","U","L"," ","C","H","O","S","E","O","N","G"," ","N","I","E","U","N","-","C","I","E","U","C">>,
  <<"H","A","N","G","U","L"," ","C","H","O","S","E","O","N","G"," ","N","I","E","U","N","-","H","I","E","U","H">>,
  <<"H","A","N","G","U","L"," ","C","H","O","S","E","O","N","G"," ","T","I","K","E","U","T","-","R","I","E","U","L">>,
  <<"H","A","N","G","U","L"," ","C","H","O","S","E","O","N","G"," ","F","I","L","L","E","R">>,
  <<"H","A","N","G","U","L"," ","J","U","N","G","S","E","O","N","G"," ","F","I","L","L","E","R">>,
  <<"H","A","N","G","U","L"," ","J","U","N","G","S","E","O","N","G"," ","A">>,
  <<"H","A","N","G","U","L"," ","J","U","N","G","S","E","O","N","G"," ","A","E">>,
  <<"H","A","N","G","U","L"," ","J","U","N","G","S","E","O","N","G"," ","Y","A">>,
  <<"H","A","N","G","U","L"," ","J","U","N","G","S","E","O","N","G"," ","Y","A","E">>,
  <<"H","A","N","G","U","L"," ","J","U","N","G","S","E","O","N","G"," ","E","O">>,
  <<"H","A","N","G","U","L"," ","J","U","N","G","S","E","O","N","G"," ","E">>,
  <<"H","A","N","G","U","L"," ","J","U","N","G","S","E","O","N","G"," ","Y","E","O">>,
  <<"H","A","N","G","U","L"," ","J","U","N","G","S","E","O","N","G"," ","Y","E">>,
  <<"H","A","N","G","U","L"," ","J","U","N","G","S","E","O","N","G"," ","O">>,
  <<"H","A","N","G","U","L"," ","J","U","N","G","S","E","O","N","G"," ","W","A">>,
  <<"H","A","N","G","U","L"," ","J","U","N","G","S","E","O","N","G"," ","W","A","E">>,
  <<"H","A","N","G","U","L"," ","J","U","N","G","S","E","O","N","G"," ","O","E">>,
  <<"H","A","N","G","U","L"," ","J","U","N","G","S","E","O","N","G"," ","Y","O">>,
  <<"H","A","N","G","U","L"," ","J","U","N","G","S","E","O","N","G"," ","U">>,
  <<"H","A","N","G","U","L"," ","J","U","N","G","S","E","O","N","G"," ","W","E","O">>,
  <<"H","A","N","G","U","L"," ","J","U","N","G","S","E","O","N","G"," ","W","E">>,
  <<"H","A","N","G","U","L"," ","J","U","N","G","S","E","O","N","G"," ","W","I">>,
  <<"H","A","N","G","U","L"," ","J","U","N","G","S","E","O","N","G"," ","Y","U">>,
  <<"H","A","N","G","U","L"," ","J","U","N","G","S","E","O","N","G"," ","E","U">>,
  <<"H","A","N","G","U","L"," ","J","U","N","G","S","E","O","N","G"," ","Y","I">>,
  <<"H","A","N","G","U","L"," ","J","U","N","G","S","E","O","N","G"," ","I">>,
  <<"H","A","N","G","U","L"," ","J","U","N","G","S","E","O","N","G"," ","A","-","O">>,
  <<"H","A","N","G","U","L"," ","J","U","N","G","S","E","O","N","G"," ","A","-","U">>,
  <<"H","A","N","G","U","L"," ","J","U","N","G","S","E","O","N","G"," ","Y","A","-","O">>,
  <<"H","A","N","G","U","L"," ","J","U","N","G","S","E","O","N","G"," ","Y","A","-","Y","O">>,
  <<"H","A","N","G","U","L"," ","J","U","N","G","S","E","O","N","G"," ","E","O","-","O">>,
  <<"H","A","N","G","U","L"," ","J","U","N","G","S","E","O","N","G"," ","E","O","-","U">>,
  <<"H","A","N","G","U","L"," ","J","U","N","G","S","E","O","N","G"," ","E","O","-","E","U">>,
  <<"H","A","N","G","U","L"," ","J","U","N","G","S","E","O","N","G"," ","Y","E","O","-","O">>,
  <<"H","A","N","G","U","L"," ","J","U","N","G","S","E","O","N","G"," ","Y","E","O","-","U">>,
  <<"H","A","N","G","U","L"," ","J","U","N","G","S","E","O","N","G"," ","O","-","E","O">>,
  <<"H","A","N","G","U","L"," ","J","U","N","G","S","E","O","N","G"," ","O","-","E">>,
  <<"H","A","N","G","U","L"," ","J","U","N","G","S","E","O","N","G"," ","O","-","Y","E">>,
  <<"H","A","N","G","U","L"," ","J","U","N","G","S","E","O","N","G"," ","O","-","O">>,
  <<"H","A","N","G","U","L"," ","J","U","N","G","S","E","O","N","G"," ","O","-","U">>,
  <<"H","A","N","G","U","L"," ","J","U","N","G","S","E","O","N","G"," ","Y","O","-","Y","A">>,
  <<"H","A","N","G","U","L"," ","J","U","N","G","S","E","O","N","G"," ","Y","O","-","Y","A","E">>,
  <<"H","A","N","G","U","L"," ","J","U","N","G","S","E","O","N","G"," ","Y","O","-","Y","E","O">>,
  <<"H","A","N","G","U","L"," ","J","U","N","G","S","E","O","N","G"," ","Y","O","-","O">>,
  <<"H","A","N","G","U","L"," ","J","U","N","G","S","E","O","N","G"," ","Y","O","-","I">>,
  <<"H","A","N","G","U","L"," ","J","U","N","G","S","E","O","N","G"," ","U","-","A">>,
  <<"H","A","N","G","U","L"," ","J","U","N","G","S","E","O","N","G"," ","U","-","A","E">>,
  <<"H","A","N","G","U","L"," ","J","U","N","G","S","E","O","N","G"," ","U","-","E","O","-","E","U">>,
  <<"H","A","N","G","U","L"," ","J","U","N","G","S","E","O","N","G"," ","U","-","Y","E">>,
  <<"H","A","N","G","U","L"," ","J","U","N","G","S","E","O","N","G"," ","U","-","U">>,
  <<"H","A","N","G","U","L"," ","J","U","N","G","S","E","O","N","G"," ","Y","U","-","A">>,
  <<"H","A","N","G","U","L"," ","J","U","N","G","S","E","O","N","G"," ","Y","U","-","E","O">>,
  <<"H","A","N","G","U","L"," ","J","U","N","G","S","E","O","N","G"," ","Y","U","-","E">>,
  <<"H","A","N","G","U","L"," ","J","U","N","G","S","E","O","N","G"," ","Y","U","-","Y","E","O">>,
  <<"H","A","N","G","U","L"," ","J","U","N","G","S","E","O","N","G"," ","Y","U","-","Y","E">>,
  <<"H","A","N","G","U","L"," ","J","U","N","G","S","E","O","N","G"," ","Y","U","-","U">>,
  <<"H","A","N","G","U","L"," ","J","U","N","G","S","E","O","N","G"," ","Y","U","-","I">>,
  <<"H","A","N","G","U","L"," ","J","U","N","G","S","E","O","N","G"," ","E","U","-","U">>,
  <<"H","A","N","G","U","L"," ","J","U","N","G","S","E","O","N","G"," ","E","U","-","E","U">>,
  <<"H","A","N","G","U","L"," ","J","U","N","G","S","E","O","N","G"," ","Y","I","-","U">>,
  <<"H","A","N","G","U","L"," ","J","U","N","G","S","E","O","N","G"," ","I","-","A">>,
  <<"H","A","N","G","U","L"," ","J","U","N","G","S","E","O","N","G"," ","I","-","Y","A">>,
  <<"H","A","N","G","U","L"," ","J","U","N","G","S","E","O","N","G"," ","I","-","O">>,
  <<"H","A","N","G","U","L"," ","J","U","N","G","S","E","O","N","G"," ","I","-","U">>,
  <<"H","A","N","G","U","L"," ","J","U","N","G","S","E","O","N","G"," ","I","-","E","U">>,
  <<"H","A","N","G","U","L"," ","J","U","N","G","S","E","O","N","G"," ","I","-","A","R","A","E","A">>,
  <<"H","A","N","G","U","L"," ","J","U","N","G","S","E","O","N","G"," ","A","R","A","E","A">>,
  <<"H","A","N","G","U","L"," ","J","U","N","G","S","E","O","N","G"," ","A","R","A","E","A","-","E","O">>,
  <<"H","A","N","G","U","L"," ","J","U","N","G","S","E","O","N","G"," ","A","R","A","E","A","-","U">>,
  <<"H","A","N","G","U","L"," ","J","U","N","G","S","E","O","N","G"," ","A","R","A","E","A","-","I">>,
  <<"H","A","N","G","U","L"," ","J","U","N","G","S","E","O","N","G"," ","S","S","A","N","G","A","R","A","E","A">>,
  <<"H","A","N","G","U","L"," ","J","U","N","G","S","E","O","N","G"," ","A","-","E","U">>,
  <<"H","A","N","G","U","L"," ","J","U","N","G","S","E","O","N","G"," ","Y","A","-","U">>,
  <<"H","A","N","G","U","L"," ","J","U","N","G","S","E","O","N","G"," ","Y","E","O","-","Y","A">>,
  <<"H","A","N","G","U","L"," ","J","U","N","G","S","E","O","N","G"," ","O","-","Y","A">>,
  <<"H","A","N","G","U","L"," ","J","U","N","G","S","E","O","N","G"," ","O","-","Y","A","E">>,
  <<"H","A","N","G","U","L"," ","J","O","N","G","S","E","O","N","G"," ","K","I","Y","E","O","K">>,
  <<"H","A","N","G","U","L"," ","J","O","N","G","S","E","O","N","G"," ","S","S","A","N","G","K","I","Y","E","O","K">>,
  <<"H","A","N","G","U","L"," ","J","O","N","G","S","E","O","N","G"," ","K","I","Y","E","O","K","-","S","I","O","S">>,
  <<"H","A","N","G","U","L"," ","J","O","N","G","S","E","O","N","G"," ","N","I","E","U","N">>,
  <<"H","A","N","G","U","L"," ","J","O","N","G","S","E","O","N","G"," ","N","I","E","U","N","-","C","I","E","U","C">>,
  <<"H","A","N","G","U","L"," ","J","O","N","G","S","E","O","N","G"," ","N","I","E","U","N","-","H","I","E","U","H">>,
  <<"H","A","N","G","U","L"," ","J","O","N","G","S","E","O","N","G"," ","T","I","K","E","U","T">>,
  <<"H","A","N","G","U","L"," ","J","O","N","G","S","E","O","N","G"," ","R","I","E","U","L">>,
  <<"H","A","N","G","U","L"," ","J","O","N","G","S","E","O","N","G"," ","R","I","E","U","L","-","K","I","Y","E","O","K">>,
  <<"H","A","N","G","U","L"," ","J","O","N","G","S","E","O","N","G"," ","R","I","E","U","L","-","M","I","E","U","M">>,
  <<"H","A","N","G","U","L"," ","J","O","N","G","S","E","O","N","G"," ","R","I","E","U","L","-","P","I","E","U","P">>,
  <<"H","A","N","G","U","L"," ","J","O","N","G","S","E","O","N","G"," ","R","I","E","U","L","-","S","I","O","S">>,
  <<"H","A","N","G","U","L"," ","J","O","N","G","S","E","O","N","G"," ","R","I","E","U","L","-","T","H","I","E","U","T","H">>,
  <<"H","A","N","G","U","L"," ","J","O","N","G","S","E","O","N","G"," ","R","I","E","U","L","-","P","H","I","E","U","P","H">>,
  <<"H","A","N","G","U","L"," ","J","O","N","G","S","E","O","N","G"," ","R","I","E","U","L","-","H","I","E","U","H">>,
  <<"H","A","N","G","U","L"," ","J","O","N","G","S","E","O","N","G"," ","M","I","E","U","M">>,
  <<"H","A","N","G","U","L"," ","J","O","N","G","S","E","O","N","G"," ","P","I","E","U","P">>,
  <<"H","A","N","G","U","L"," ","J","O","N","G","S","E","O","N","G"," ","P","I","E","U","P","-","S","I","O","S">>,
  <<"H","A","N","G","U","L"," ","J","O","N","G","S","E","O","N","G"," ","S","I","O","S">>,
  <<"H","A","N","G","U","L"," ","J","O","N","G","S","E","O","N","G"," ","S","S","A","N","G","S","I","O","S">>,
  <<"H","A","N","G","U","L"," ","J","O","N","G","S","E","O","N","G"," ","I","E","U","N","G">>,
  <<"H","A","N","G","U","L"," ","J","O","N","G","S","E","O","N","G"," ","C","I","E","U","C">>,
  <<"H","A","N","G","U","L"," ","J","O","N","G","S","E","O","N","G"," ","C","H","I","E","U","C","H">>,
  <<"H","A","N","G","U","L"," ","J","O","N","G","S","E","O","N","G"," ","K","H","I","E","U","K","H">>,
  <<"H","A","N","G","U","L"," ","J","O","N","G","S","E","O","N","G"," ","T","H","I","E","U","T","H">>,
  <<"H","A","N","G","U","L"," ","J","O","N","G","S","E","O","N","G"," ","P","H","I","E","U","P","H">>,
  <<"H","A","N","G","U","L"," ","J","O","N","G","S","E","O","N","G"," ","H","I","E","U","H">>,
  <<"H","A","N","G","U","L"," ","J","O","N","G","S","E","O","N","G"," ","K","I","Y","E","O","K","-","R","I","E","U","L">>,
  <<"H","A","N","G","U","L"," ","J","O","N","G","S","E","O","N","G"," ","K","I","Y","E","O","K","-","S","I","O","S","-","K","I","Y","E","O","K">>,
  <<"H","A","N","G","U","L"," ","J","O","N","G","S","E","O","N","G"," ","N","I","E","U","N","-","K","I","Y","E","O","K">>,
  <<"H","A","N","G","U","L"," ","J","O","N","G","S","E","O","N","G"," ","N","I","E","U","N","-","T","I","K","E","U","T">>,
  <<"H","A","N","G","U","L"," ","J","O","N","G","S","E","O","N","G"," ","N","I","E","U","N","-","S","I","O","S">>,
  <<"H","A","N","G","U","L"," ","J","O","N","G","S","E","O","N","G"," ","N","I","E","U","N","-","P","A","N","S","I","O","S">>,
  <<"H","A","N","G","U","L"," ","J","O","N","G","S","E","O","N","G"," ","N","I","E","U","N","-","T","H","I","E","U","T","H">>,
  <<"H","A","N","G","U","L"," ","J","O","N","G","S","E","O","N","G"," ","T","I","K","E","U","T","-","K","I","Y","E","O","K">>,
  <<"H","A","N","G","U","L"," ","J","O","N","G","S","E","O","N","G"," ","T","I","K","E","U","T","-","R","I","E","U","L">>,
  <<"H","A","N","G","U","L"," ","J","O","N","G","S","E","O","N","G"," ","R","I","E","U","L","-","K","I","Y","E","O","K","-","S","I","O","S">>,
  <<"H","A","N","G","U","L"," ","J","O","N","G","S","E","O","N","G"," ","R","I","E","U","L","-","N","I","E","U","N">>,
  <<"H","A","N","G","U","L"," ","J","O","N","G","S","E","O","N","G"," ","R","I","E","U","L","-","T","I","K","E","U","T">>,
  <<"H","A","N","G","U","L"," ","J","O","N","G","S","E","O","N","G"," ","R","I","E","U","L","-","T","I","K","E","U","T","-","H","I","E","U","H">>,
  <<"H","A","N","G","U","L"," ","J","O","N","G","S","E","O","N","G"," ","S","S","A","N","G","R","I","E","U","L">>,
  <<"H","A","N","G","U","L"," ","J","O","N","G","S","E","O","N","G"," ","R","I","E","U","L","-","M","I","E","U","M","-","K","I","Y","E","O","K">>,
  <<"H","A","N","G","U","L"," ","J","O","N","G","S","E","O","N","G"," ","R","I","E","U","L","-","M","I","E","U","M","-","S","I","O","S">>,
  <<"H","A","N","G","U","L"," ","J","O","N","G","S","E","O","N","G"," ","R","I","E","U","L","-","P","I","E","U","P","-","S","I","O","S">>,
  <<"H","A","N","G","U","L"," ","J","O","N","G","S","E","O","N","G"," ","R","I","E","U","L","-","P","I","E","U","P","-","H","I","E","U","H">>,
  <<"H","A","N","G","U","L"," ","J","O","N","G","S","E","O","N","G"," ","R","I","E","U","L","-","K","A","P","Y","E","O","U","N","P","I","E","U","P">>,
  <<"H","A","N","G","U","L"," ","J","O","N","G","S","E","O","N","G"," ","R","I","E","U","L","-","S","S","A","N","G","S","I","O","S">>,
  <<"H","A","N","G","U","L"," ","J","O","N","G","S","E","O","N","G"," ","R","I","E","U","L","-","P","A","N","S","I","O","S">>,
  <<"H","A","N","G","U","L"," ","J","O","N","G","S","E","O","N","G"," ","R","I","E","U","L","-","K","H","I","E","U","K","H">>,
  <<"H","A","N","G","U","L"," ","J","O","N","G","S","E","O","N","G"," ","R","I","E","U","L","-","Y","E","O","R","I","N","H","I","E","U","H">>,
  <<"H","A","N","G","U","L"," ","J","O","N","G","S","E","O","N","G"," ","M","I","E","U","M","-","K","I","Y","E","O","K">>,
  <<"H","A","N","G","U","L"," ","J","O","N","G","S","E","O","N","G"," ","M","I","E","U","M","-","R","I","E","U","L">>,
  <<"H","A","N","G","U","L"," ","J","O","N","G","S","E","O","N","G"," ","M","I","E","U","M","-","P","I","E","U","P">>,
  <<"H","A","N","G","U","L"," ","J","O","N","G","S","E","O","N","G"," ","M","I","E","U","M","-","S","I","O","S">>,
  <<"H","A","N","G","U","L"," ","J","O","N","G","S","E","O","N","G"," ","M","I","E","U","M","-","S","S","A","N","G","S","I","O","S">>,
  <<"H","A","N","G","U","L"," ","J","O","N","G","S","E","O","N","G"," ","M","I","E","U","M","-","P","A","N","S","I","O","S">>,
  <<"H","A","N","G","U","L"," ","J","O","N","G","S","E","O","N","G"," ","M","I","E","U","M","-","C","H","I","E","U","C","H">>,
  <<"H","A","N","G","U","L"," ","J","O","N","G","S","E","O","N","G"," ","M","I","E","U","M","-","H","I","E","U","H">>,
  <<"H","A","N","G","U","L"," ","J","O","N","G","S","E","O","N","G"," ","K","A","P","Y","E","O","U","N","M","I","E","U","M">>,
  <<"H","A","N","G","U","L"," ","J","O","N","G","S","E","O","N","G"," ","P","I","E","U","P","-","R","I","E","U","L">>,
  <<"H","A","N","G","U","L"," ","J","O","N","G","S","E","O","N","G"," ","P","I","E","U","P","-","P","H","I","E","U","P","H">>,
  <<"H","A","N","G","U","L"," ","J","O","N","G","S","E","O","N","G"," ","P","I","E","U","P","-","H","I","E","U","H">>,
  <<"H","A","N","G","U","L"," ","J","O","N","G","S","E","O","N","G"," ","K","A","P","Y","E","O","U","N","P","I","E","U","P">>,
  <<"H","A","N","G","U","L"," ","J","O","N","G","S","E","O","N","G"," ","S","I","O","S","-","K","I","Y","E","O","K">>,
  <<"H","A","N","G","U","L"," ","J","O","N","G","S","E","O","N","G"," ","S","I","O","S","-","T","I","K","E","U","T">>,
  <<"H","A","N","G","U","L"," ","J","O","N","G","S","E","O","N","G"," ","S","I","O","S","-","R","I","E","U","L">>,
  <<"H","A","N","G","U","L"," ","J","O","N","G","S","E","O","N","G"," ","S","I","O","S","-","P","I","E","U","P">>,
  <<"H","A","N","G","U","L"," ","J","O","N","G","S","E","O","N","G"," ","P","A","N","S","I","O","S">>,
  <<"H","A","N","G","U","L"," ","J","O","N","G","S","E","O","N","G"," ","I","E","U","N","G","-","K","I","Y","E","O","K">>,
  <<"H","A","N","G","U","L"," ","J","O","N","G","S","E","O","N","G"," ","I","E","U","N","G","-","S","S","A","N","G","K","I","Y","E","O","K">>,
  <<"H","A","N","G","U","L"," ","J","O","N","G","S","E","O","N","G"," ","S","S","A","N","G","I","E","U","N","G">>,
  <<"H","A","N","G","U","L"," ","J","O","N","G","S","E","O","N","G"," ","I","E","U","N","G","-","K","H","I","E","U","K","H">>,
  <<"H","A","N","G","U","L"," ","J","O","N","G","S","E","O","N","G"," ","Y","E","S","I","E","U","N","G">>,
  <<"H","A","N","G","U","L"," ","J","O","N","G","S","E","O","N","G"," ","Y","E","S","I","E","U","N","G","-","S","I","O","S">>,
  <<"H","A","N","G","U","L"," ","J","O","N","G","S","E","O","N","G"," ","Y","E","S","I","E","U","N","G","-","P","A","N","S","I","O","S">>,
  <<"H","A","N","G","U","L"," ","J","O","N","G","S","E","O","N","G"," ","P","H","I","E","U","P","H","-","P","I","E","U","P">>,
  <<"H","A","N","G","U","L"," ","J","O","N","G","S","E","O","N","G"," ","K","A","P","Y","E","O","U","N","P","H","I","E","U","P","H">>,
  <<"H","A","N","G","U","L"," ","J","O","N","G","S","E","O","N","G"," ","H","I","E","U","H","-","N","I","E","U","N">>,
  <<"H","A","N","G","U","L"," ","J","O","N","G","S","E","O","N","G"," ","H","I","E","U","H","-","R","I","E","U","L">>,
  <<"H","A","N","G","U","L"," ","J","O","N","G","S","E","O","N","G"," ","H","I","E","U","H","-","M","I","E","U","M">>,
  <<"H","A","N","G","U","L"," ","J","O","N","G","S","E","O","N","G"," ","H","I","E","U","H","-","P","I","E","U","P">>,
  <<"H","A","N","G","U","L"," ","J","O","N","G","S","E","O","N","G"," ","Y","E","O","R","I","N","H","I","E","U","H">>,
  <<"H","A","N","G","U","L"," ","J","O","N","G","S","E","O","N","G"," ","K","I","Y","E","O","K","-","N","I","E","U","N">>,
  <<"H","A","N","G","U","L"," ","J","O","N","G","S","E","O","N","G"," ","K","I","Y","E","O","K","-","P","I","E","U","P">>,
  <<"H","A","N","G","U","L"," ","J","O","N","G","S","E","O","N","G"," ","K","I","Y","E","O","K","-","C","H","I","E","U","C","H">>,
  <<"H","A","N","G","U","L"," ","J","O","N","G","S","E","O","N","G"," ","K","I","Y","E","O","K","-","K","H","I","E","U","K","H">>,
  <<"H","A","N","G","U","L"," ","J","O","N","G","S","E","O","N","G"," ","K","I","Y","E","O","K","-","H","I","E","U","H">>,
  <<"H","A","N","G","U","L"," ","J","O","N","G","S","E","O","N","G"," ","S","S","A","N","G","N","I","E","U","N">>
  >>

\* unicodedata.name over U+3131..U+318E (Hangul Compatibility Jamo)
HcjNames ==
  <<
  <<"H","A","N","G","U","L"," ","L","E","T","T","E","R"," ","K","I","Y","E","O","K">>,
  <<"H","A","N","G","U","L"," ","L","E","T","T","E","R"," ","S","S","A","N","G","K","I","Y","E","O","K">>,
  <<"H","A","N","G","U","L"," ","L","E","T","T","E","R"," ","K","I","Y","E","O","K","-","S","I","O","S">>,
  <<"H","A","N","G","U","L"," ","L","E","T","T","E","R"," ","N","I","E","U","N">>,
  <<"H","A","N","G","U","L"," ","L","E","T","T","E","R"," ","N","I","E","U","N","-","C","I","E","U","C">>,
  <<"H","A","N","G","U","L"," ","L","E","T","T","E","R"," ","N","I","E","U","N","-","H","I","E","U","H">>,
  <<"H","A","N","G","U","L"," ","L","E","T","T","E","R"," ","T","I","K","E","U","T">>,
  <<"H","A","N","G","U","L"," ","L","E","T","T","E","R"," ","S","S","A","N","G","T","I","K","E","U","T">>,
  <<"H","A","N","G","U","L"," ","L","E","T","T","E","R"," ","R","I","E","U","L">>,
  <<"H","A","N","G","U","L"," ","L","E","T","T","E","R"," ","R","I","E","U","L","-","K","I","Y","E","O","K">>,
  <<"H","A","N","G","U","L"," ","L","E","T","T","E","R"," ","R","I","E","U","L","-","M","I","E","U","M">>,
  <<"H","A","N","G","U","L"," ","L","E","T","T","E","R"," ","R","I","E","U","L","-","P","I","E","U","P">>,
  <<"H","A","N","G","U","L"," ","L","E","T","T","E","R"," ","R","I","E","U","L","-","S","I","O","S">>,
  <<"H","A","N","G","U","L"," ","L","E","T","T","E","R"," ","R","I","E","U","L","-","T","H","I","E","U","T","H">>,
  <<"H","A","N","G","U","L"," ","L","E","T","T","E","R"," ","R","I","E","U","L","-","P","H","I","E","U","P","H">>,
  <<"H","A","N","G","U","L"," ","L","E","T","T","E","R"," ","R","I","E","U","L","-","H","I","E","U","H">>,
  <<"H","A","N","G","U","L"," ","L","E","T","T","E","R"," ","M","I","E","U","M">>,
  <<"H","A","N","G","U","L"," ","L","E","T","T","E","R"," ","P","I","E","U","P">>,
  <<"H","A","N","G","U","L"," ","L","E","T","T","E","R"," ","S","S","A","N","G","P","I","E","U","P">>,
  <<"H","A","N","G","U","L"," ","L","E","T","T","E","R"," ","P","I","E","U","P","-","S","I","O","S">>,
  <<"H","A","N","G","U","L"," ","L","E","T","T","E","R"," ","S","I","O","S">>,
  <<"H","A","N","G","U","L"," ","L","E","T","T","E","R"," ","S","S","A","N","G","S","I","O","S">>,
  <<"H","A","N","G","U","L"," ","L","E","T","T","E","R"," ","I","E","U","N","G">>,
  <<"H","A","N","G","U","L"," ","L","E","T","T","E","R"," ","C","I","E","U","C">>,
  <<"H","A","N","G","U","L"," ","L","E","T","T","E","R"," ","S","S","A","N","G","C","I","E","U","C">>,
  <<"H","A","N","G","U","L"," ","L","E","T","T","E","R"," ","C","H","I","E","U","C","H">>,
  <<"H","A","N","G","U","L"," ","L","E","T","T","E","R"," ","K","H","I","E","U","K","H">>,
  <<"H","A","N","G","U","L"," ","L","E","T","T","E","R"," ","T","H","I","E","U","T","H">>,
  <<"H","A","N","G","U","L"," ","L","E","T","T","E","R"," ","P","H","I","E","U","P","H">>,
  <<"H","A","N","G","U","L"," ","L","E","T","T","E","R"," ","H","I","E","U","H">>,
  <<"H","A","N","G","U","L"," ","L","E","T","T","E","R"," ","A">>,
  <<"H","A","N","G","U","L"," ","L","E","T","T","E","R"," ","A","E">>,
  <<"H","A","N","G","U","L"," ","L","E","T","T","E","R"," ","Y","A">>,
  <<"H","A","N","G","U","L"," ","L","E","T","T","E","R"," ","Y","A","E">>,
  <<"H","A","N","G","U","L"," ","L","E","T","T","E","R"," ","E","O">>,
  <<"H","A","N","G","U","L"," ","L","E","T","T","E","R"," ","E">>,
  <<"H","A","N","G","U","L"," ","L","E","T","T","E","R"," ","Y","E","O">>,
  <<"H","A","N","G","U","L"," ","L","E","T","T","E","R"," ","Y","E">>,
  <<"H","A","N","G","U","L"," ","L","E","T","T","E","R"," ","O">>,
  <<"H","A","N","G","U","L"," ","L","E","T","T","E","R"," ","W","A">>,
  <<"H","A","N","G","U","L"," ","L","E","T","T","E","R"," ","W","A","E">>,
  <<"H","A","N","G","U","L"," ","L","E","T","T","E","R"," ","O","E">>,
  <<"H","A","N","G","U","L"," ","L","E","T","T","E","R"," ","Y","O">>,
  <<"H","A","N","G","U","L"," ","L","E","T","T","E","R"," ","U">>,
  <<"H","A","N","G","U","L"," ","L","E","T","T","E","R"," ","W","E","O">>,
  <<"H","A","N","G","U","L"," ","L","E","T","T","E","R"," ","W","E">>,
  <<"H","A","N","G","U","L"," ","L","E","T","T","E","R"," ","W","I">>,
  <<"H","A","N","G","U","L"," ","L","E","T","T","E","R"," ","Y","U">>,
  <<"H","A","N","G","U","L"," ","L","E","T","T","E","R"," ","E","U">>,
  <<"H","A","N","G","U","L"," ","L","E","T","T","E","R"," ","Y","I">>,
  <<"H","A","N","G","U","L"," ","L","E","T","T","E","R"," ","I">>,
  <<"H","A","N","G","U","L"," ","F","I","L","L","E","R">>,
  <<"H","A","N","G","U","L"," ","L","E","T","T","E","R"," ","S","S","A","N","G","N","I","E","U","N">>,
  <<"H","A","N","G","U","L"," ","L","E","T","T","E","R"," ","N","I","E","U","N","-","T","I","K","E","U","T">>,
  <<"H","A","N","G","U","L"," ","L","E","T","T","E","R"," ","N","I","E","U","N","-","S","I","O","S">>,
  <<"H","A","N","G","U","L"," ","L","E","T","T","E","R"," ","N","I","E","U","N","-","P","A","N","S","I","O","S">>,
  <<"H","A","N","G","U","L"," ","L","E","T","T","E","R"," ","R","I","E","U","L","-","K","I","Y","E","O","K","-","S","I","O","S">>,
  <<"H","A","N","G","U","L"," ","L","E","T","T","E","R"," ","R","I","E","U","L","-","T","I","K","E","U","T">>,
  <<"H","A","N","G","U","L"," ","L","E","T","T","E","R"," ","R","I","E","U","L","-","P","I","E","U","P","-","S","I","O","S">>,
  <<"H","A","N","G","U","L"," ","L","E","T","T","E","R"," ","R","I","E","U","L","-","P","A","N","S","I","O","S">>,
  <<"H","A","N","G","U","L"," ","L","E","T","T","E","R"," ","R","I","E","U","L","-","Y","E","O","R","I","N","H","I","E","U","H">>,
  <<"H","A","N","G","U","L"," ","L","E","T","T","E","R"," ","M","I","E","U","M","-","P","I","E","U","P">>,
  <<"H","A","N","G","U","L"," ","L","E","T","T","E","R"," ","M","I","E","U","M","-","S","I","O","S">>,
  <<"H","A","N","G","U","L"," ","L","E","T","T","E","R"," ","M","I","E","U","M","-","P","A","N","S","I","O","S">>,
  <<"H","A","N","G","U","L"," ","L","E","T","T","E","R"," ","K","A","P","Y","E","O","U","N","M","I","E","U","M">>,
  <<"H","A","N","G","U","L"," ","L","E","T","T","E","R"," ","P","I","E","U","P","-","K","I","Y","E","O","K">>,
  <<"H","A","N","G","U","L"," ","L","E","T","T","E","R"," ","P","I","E","U","P","-","T","I","K","E","U","T">>,
  <<"H","A","N","G","U","L"," ","L","E","T","T","E","R"," ","P","I","E","U","P","-","S","I","O","S","-","K","I","Y","E","O","K">>,
  <<"H","A","N","G","U","L"," ","L","E","T","T","E","R"," ","P","I","E","U","P","-","S","I","O","S","-","T","I","K","E","U","T">>,
  <<"H","A","N","G","U","L"," ","L","E","T","T","E","R"," ","P","I","E","U","P","-","C","I","E","U","C">>,
  <<"H","A","N","G","U","L"," ","L","E","T","T","E","R"," ","P","I","E","U","P","-","T","H","I","E","U","T","H">>,
  <<"H","A","N","G","U","L"," ","L","E","T","T","E","R"," ","K","A","P","Y","E","O","U","N","P","I","E","U","P">>,
  <<"H","A","N","G","U","L"," ","L","E","T","T","E","R"," ","K","A","P","Y","E","O","U","N","S","S","A","N","G","P","I","E","U","P">>,
  <<"H","A","N","G","U","L"," ","L","E","T","T","E","R"," ","S","I","O","S","-","K","I","Y","E","O","K">>,
  <<"H","A","N","G","U","L"," ","L","E","T","T","E","R"," ","S","I","O","S","-","N","I","E","U","N">>,
  <<"H","A","N","G","U","L"," ","L","E","T","T","E","R"," ","S","I","O","S","-","T","I","K","E","U","T">>,
  <<"H","A","N","G","U","L"," ","L","E","T","T","E","R"," ","S","I","O","S","-","P","I","E","U","P">>,
  <<"H","A","N","G","U","L"," ","L","E","T","T","E","R"," ","S","I","O","S","-","C","I","E","U","C">>,
  <<"H","A","N","G","U","L"," ","L","E","T","T","E","R"," ","P","A","N","S","I","O","S">>,
  <<"H","A","N","G","U","L"," ","L","E","T","T","E","R"," ","S","S","A","N","G","I","E","U","N","G">>,
  <<"H","A","N","G","U","L"," ","L","E","T","T","E","R"," ","Y","E","S","I","E","U","N","G">>,
  <<"H","A","N","G","U","L"," ","L","E","T","T","E","R"," ","Y","E","S","I","E","U","N","G","-","S","I","O","S">>,
  <<"H","A","N","G","U","L"," ","L","E","T","T","E","R"," ","Y","E","S","I","E","U","N","G","-","P","A","N","S","I","O","S">>,
  <<"H","A","N","G","U","L"," ","L","E","T","T","E","R"," ","K","A","P","Y","E","O","U","N","P","H","I","E","U","P","H">>,
  <<"H","A","N","G","U","L"," ","L","E","T","T","E","R"," ","S","S","A","N","G","H","I","E","U","H">>,
  <<"H","A","N","G","U","L"," ","L","E","T","T","E","R"," ","Y","E","O","R","I","N","H","I","E","U","H">>,
  <<"H","A","N","G","U","L"," ","L","E","T","T","E","R"," ","Y","O","-","Y","A">>,
  <<"H","A","N","G","U","L"," ","L","E","T","T","E","R"," ","Y","O","-","Y","A","E">>,
  <<"H","A","N","G","U","L"," ","L","E","T","T","E","R"," ","Y","O","-","I">>,
  <<"H","A","N","G","U","L"," ","L","E","T","T","E","R"," ","Y","U","-","Y","E","O">>,
  <<"H","A","N","G","U","L"," ","L","E","T","T","E","R"," ","Y","U","-","Y","E">>,
  <<"H","A","N","G","U","L"," ","L","E","T","T","E","R"," ","Y","U","-","I">>,
  <<"H","A","N","G","U","L"," ","L","E","T","T","E","R"," ","A","R","A","E","A">>,
  <<"H","A","N","G","U","L"," ","L","E","T","T","E","R"," ","A","R","A","E","A","E">>
  >>

\* unicodedata.name over U+A960..U+A97C (Hangul Jamo Extended-A)
ExtANames ==
  <<
  <<"H","A","N","G","U","L"," ","C","H","O","S","E","O","N","G"," ","T","I","K","E","U","T","-","M","I","E","U","M">>,
  <<"H","A","N","G","U","L"," ","C","H","O","S","E","O","N","G"," ","T","I","K","E","U","T","-","P","I","E","U","P">>,
  <<"H","A","N","G","U","L"," ","C","H","O","S","E","O","N","G"," ","T","I","K","E","U","T","-","S","I","O","S">>,
  <<"H","A","N","G","U","L"," ","C","H","O","S","E","O","N","G"," ","T","I","K","E","U","T","-","C","I","E","U","C">>,
  <<"H","A","N","G","U","L"," ","C","H","O","S","E","O","N","G"," ","R","I","E","U","L","-","K","I","Y","E","O","K">>,
  <<"H","A","N","G","U","L"," ","C","H","O","S","E","O","N","G"," ","R","I","E","U","L","-","S","S","A","N","G","K","I","Y","E","O","K">>,
  <<"H","A","N","G","U","L"," ","C","H","O","S","E","O","N","G"," ","R","I","E","U","L","-","T","I","K","E","U","T">>,
  <<"H","A","N","G","U","L"," ","C","H","O","S","E","O","N","G"," ","R","I","E","U","L","-","S","S","A","N","G","T","I","K","E","U","T">>,
  <<"H","A","N","G","U","L"," ","C","H","O","S","E","O","N","G"," ","R","I","E","U","L","-","M","I","E","U","M">>,
  <<"H","A","N","G","U","L"," ","C","H","O","S","E","O","N","G"," ","R","I","E","U","L","-","P","I","E","U","P">>,
  <<"H","A","N","G","U","L"," ","C","H","O","S","E","O","N","G"," ","R","I","E","U","L","-","S","S","A","N","G","P","I","E","U","P">>,
  <<"H","A","N","G","U","L"," ","C","H","O","S","E","O","N","G"," ","R","I","E","U","L","-","K","A","P","Y","E","O","U","N","P","I","E","U","P">>,
  <<"H","A","N","G","U","L"," ","C","H","O","S","E","O","N","G"," ","R","I","E","U","L","-","S","I","O","S">>,
  <<"H","A","N","G","U","L"," ","C","H","O","S","E","O","N","G"," ","R","I","E","U","L","-","C","I","E","U","C">>,
  <<"H","A","N","G","U","L"," ","C","H","O","S","E","O","N","G"," ","R","I","E","U","L","-","K","H","I","E","U","K","H">>,
  <<"H","A","N","G","U","L"," ","C","H","O","S","E","O","N","G"," ","M","I","E","U","M","-","K","I","Y","E","O","K">>,
  <<"H","A","N","G","U","L"," ","C","H","O","S","E","O","N","G"," ","M","I","E","U","M","-","T","I","K","E","U","T">>,
  <<"H","A","N","G","U","L"," ","C","H","O","S","E","O","N","G"," ","M","I","E","U","M","-","S","I","O","S">>,
  <<"H","A","N","G","U","L"," ","C","H","O","S","E","O","N","G"," ","P","I","E","U","P","-","S","I","O","S","-","T","H","I","E","U","T","H">>,
  <<"H","A","N","G","U","L"," ","C","H","O","S","E","O","N","G"," ","P","I","E","U","P","-","K","H","I","E","U","K","H">>,
  <<"H","A","N","G","U","L"," ","C","H","O","S","E","O","N","G"," ","P","I","E","U","P","-","H","I","E","U","H">>,
  <<"H","A","N","G","U","L"," ","C","H","O","S","E","O","N","G"," ","S","S","A","N","G","S","I","O","S","-","P","I","E","U","P">>,
  <<"H","A","N","G","U","L"," ","C","H","O","S","E","O","N","G"," ","I","E","U","N","G","-","R","I","E","U","L">>,
  <<"H","A","N","G","U","L"," ","C","H","O","S","E","O","N","G"," ","I","E","U","N","G","-","H","I","E","U","H">>,
  <<"H","A","N","G","U","L"," ","C","H","O","S","E","O","N","G"," ","S","S","A","N","G","C","I","E","U","C","-","H","I","E","U","H">>,
  <<"H","A","N","G","U","L"," ","C","H","O","S","E","O","N","G"," ","S","S","A","N","G","T","H","I","E","U","T","H">>,
  <<"H","A","N","G","U","L"," ","C","H","O","S","E","O","N","G"," ","P","H","I","E","U","P","H","-","H","I","E","U","H">>,
  <<"H","A","N","G","U","L"," ","C","H","O","S","E","O","N","G"," ","H","I","E","U","H","-","S","I","O","S">>,
  <<"H","A","N","G","U","L"," ","C","H","O","S","E","O","N","G"," ","S","S","A","N","G","Y","E","O","R","I","N","H","I","E","U","H">>
  >>

\* unicodedata.name over U+D7B0..U+D7FB (Hangul Jamo Extended-B)
ExtBNames ==
  <<
  <<"H","A","N","G","U","L"," ","J","U","N","G","S","E","O","N","G"," ","O","-","Y","E","O">>,
  <<"H","A","N","G","U","L"," ","J","U","N","G","S","E","O","N","G"," ","O","-","O","-","I">>,
  <<"H","A","N","G","U","L"," ","J","U","N","G","S","E","O","N","G"," ","Y","O","-","A">>,
  <<"H","A","N","G","U","L"," ","J","U","N","G","S","E","O","N","G"," ","Y","O","-","A","E">>,
  <<"H","A","N","G","U","L"," ","J","U","N","G","S","E","O","N","G"," ","Y","O","-","E","O">>,
  <<"H","A","N","G","U","L"," ","J","U","N","G","S","E","O","N","G"," ","U","-","Y","E","O">>,
  <<"H","A","N","G","U","L"," ","J","U","N","G","S","E","O","N","G"," ","U","-","I","-","I">>,
  <<"H","A","N","G","U","L"," ","J","U","N","G","S","E","O","N","G"," ","Y","U","-","A","E">>,
  <<"H","A","N","G","U","L"," ","J","U","N","G","S","E","O","N","G"," ","Y","U","-","O">>,
  <<"H","A","N","G","U","L"," ","J","U","N","G","S","E","O","N","G"," ","E","U","-","A">>,
  <<"H","A","N","G","U","L"," ","J","U","N","G","S","E","O","N","G"," ","E","U","-","E","O">>,
  <<"H","A","N","G","U","L"," ","J","U","N","G","S","E","O","N","G"," ","E","U","-","E">>,
  <<"H","A","N","G","U","L"," ","J","U","N","G","S","E","O","N","G"," ","E","U","-","O">>,
  <<"H","A","N","G","U","L"," ","J","U","N","G","S","E","O","N","G"," ","I","-","Y","A","-","O">>,
  <<"H","A","N","G","U","L"," ","J","U","N","G","S","E","O","N","G"," ","I","-","Y","A","E">>,
  <<"H","A","N","G","U","L"," ","J","U","N","G","S","E","O","N","G"," ","I","-","Y","E","O">>,
  <<"H","A","N","G","U","L"," ","J","U","N","G","S","E","O","N","G"," ","I","-","Y","E">>,
  <<"H","A","N","G","U","L"," ","J","U","N","G","S","E","O","N","G"," ","I","-","O","-","I">>,
  <<"H","A","N","G","U","L"," ","J","U","N","G","S","E","O","N","G"," ","I","-","Y","O">>,
  <<"H","A","N","G","U","L"," ","J","U","N","G","S","E","O","N","G"," ","I","-","Y","U">>,
  <<"H","A","N","G","U","L"," ","J","U","N","G","S","E","O","N","G"," ","I","-","I">>,
  <<"H","A","N","G","U","L"," ","J","U","N","G","S","E","O","N","G"," ","A","R","A","E","A","-","A">>,
  <<"H","A","N","G","U","L"," ","J","U","N","G","S","E","O","N","G"," ","A","R","A","E","A","-","E">>,
  <<>>,
  <<>>,
  <<>>,
  <<>>,
  <<"H","A","N","G","U","L"," ","J","O","N","G","S","E","O","N","G"," ","N","I","E","U","N","-","R","I","E","U","L">>,
  <<"H","A","N","G","U","L"," ","J","O","N","G","S","E","O","N","G"," ","N","I","E","U","N","-","C","H","I","E","U","C","H">>,
  <<"H","A","N","G","U","L"," ","J","O","N","G","S","E","O","N","G"," ","S","S","A","N","G","T","I","K","E","U","T">>,
  <<"H","A","N","G","U","L"," ","J","O","N","G","S","E","O","N","G"," ","S","S","A","N","G","T","I","K","E","U","T","-","P","I","E","U","P">>,
  <<"H","A","N","G","U","L"," ","J","O","N","G","S","E","O","N","G"," ","T","I","K","E","U","T","-","P","I","E","U","P">>,
  <<"H","A","N","G","U","L"," ","J","O","N","G","S","E","O","N","G"," ","T","I","K","E","U","T","-","S","I","O","S">>,
  <<"H","A","N","G","U","L"," ","J","O","N","G","S","E","O","N","G"," ","T","I","K","E","U","T","-","S","I","O","S","-","K","I","Y","E","O","K">>,
  <<"H","A","N","G","U","L"," ","J","O","N","G","S","E","O","N","G"," ","T","I","K","E","U","T","-","C","I","E","U","C">>,
  <<"H","A","N","G","U","L"," ","J","O","N","G","S","E","O","N","G"," ","T","I","K","E","U","T","-","C","H","I","E","U","C","H">>,
  <<"H","A","N","G","U","L"," ","J","O","N","G","S","E","O","N","G"," ","T","I","K","E","U","T","-","T","H","I","E","U","T","H">>,
  <<"H","A","N","G","U","L"," ","J","O","N","G","S","E","O","N","G"," ","R","I","E","U","L","-","S","S","A","N","G","K","I","Y","E","O","K">>,
  <<"H","A","N","G","U","L"," ","J","O","N","G","S","E","O","N","G"," ","R","I","E","U","L","-","K","I","Y","E","O","K","-","H","I","E","U","H">>,
  <<"H","A","N","G","U","L"," ","J","O","N","G","S","E","O","N","G"," ","S","S","A","N","G","R","I","E","U","L","-","K","H","I","E","U","K","H">>,
  <<"H","A","N","G","U","L"," ","J","O","N","G","S","E","O","N","G"," ","R","I","E","U","L","-","M","I","E","U","M","-","H","I","E","U","H">>,
  <<"H","A","N","G","U","L"," ","J","O","N","G","S","E","O","N","G"," ","R","I","E","U","L","-","P","I","E","U","P","-","T","I","K","E","U","T">>,
  <<"H","A","N","G","U","L"," ","J","O","N","G","S","E","O","N","G"," ","R","I","E","U","L","-","P","I","E","U","P","-","P","H","I","E","U","P","H">>,
  <<"H","A","N","G","U","L"," ","J","O","N","G","S","E","O","N","G"," ","R","I","E","U","L","-","Y","E","S","I","E","U","N","G">>,
  <<"H","A","N","G","U","L"," ","J","O","N","G","S","E","O","N","G"," ","R","I","E","U","L","-","Y","E","O","R","I","N","H","I","E","U","H","-","H","I","E","U","H">>,
  <<"H","A","N","G","U","L"," ","J","O","N","G","S","E","O","N","G"," ","K","A","P","Y","E","O","U","N","R","I","E","U","L">>,
  <<"H","A","N","G","U","L"," ","J","O","N","G","S","E","O","N","G"," ","M","I","E","U","M","-","N","I","E","U","N">>,
  <<"H","A","N","G","U","L"," ","J","O","N","G","S","E","O","N","G"," ","M","I","E","U","M","-","S","S","A","N","G","N","I","E","U","N">>,
  <<"H","A","N","G","U","L"," ","J","O","N","G","S","E","O","N","G"," ","S","S","A","N","G","M","I","E","U","M">>,
  <<"H","A","N","G","U","L"," ","J","O","N","G","S","E","O","N","G"," ","M","I","E","U","M","-","P","I","E","U","P","-","S","I","O","S">>,
  <<"H","A","N","G","U","L"," ","J","O","N","G","S","E","O","N","G"," ","M","I","E","U","M","-","C","I","E","U","C">>,
  <<"H","A","N","G","U","L"," ","J","O","N","G","S","E","O","N","G"," ","P","I","E","U","P","-","T","I","K","E","U","T">>,
  <<"H","A","N","G","U","L"," ","J","O","N","G","S","E","O","N","G"," ","P","I","E","U","P","-","R","I","E","U","L","-","P","H","I","E","U","P","H">>,
  <<"H","A","N","G","U","L"," ","J","O","N","G","S","E","O","N","G"," ","P","I","E","U","P","-","M","I","E","U","M">>,
  <<"H","A","N","G","U","L"," ","J","O","N","G","S","E","O","N","G"," ","S","S","A","N","G","P","I","E","U","P">>,
  <<"H","A","N","G","U","L"," ","J","O","N","G","S","E","O","N","G"," ","P","I","E","U","P","-","S","I","O","S","-","T","I","K","E","U","T">>,
  <<"H","A","N","G","U","L"," ","J","O","N","G","S","E","O","N","G"," ","P","I","E","U","P","-","C","I","E","U","C">>,
  <<"H","A","N","G","U","L"," ","J","O","N","G","S","E","O","N","G"," ","P","I","E","U","P","-","C","H","I","E","U","C","H">>,
  <<"H","A","N","G","U","L"," ","J","O","N","G","S","E","O","N","G"," ","S","I","O","S","-","M","I","E","U","M">>,
  <<"H","A","N","G","U","L"," ","J","O","N","G","S","E","O","N","G"," ","S","I","O","S","-","K","A","P","Y","E","O","U","N","P","I","E","U","P">>,
  <<"H","A","N","G","U","L"," ","J","O","N","G","S","E","O","N","G"," ","S","S","A","N","G","S","I","O","S","-","K","I","Y","E","O","K">>,
  <<"H","A","N","G","U","L"," ","J","O","N","G","S","E","O","N","G"," ","S","S","A","N","G","S","I","O","S","-","T","I","K","E","U","T">>,
  <<"H","A","N","G","U","L"," ","J","O","N","G","S","E","O","N","G"," ","S","I","O","S","-","P","A","N","S","I","O","S">>,
  <<"H","A","N","G","U","L"," ","J","O","N","G","S","E","O","N","G"," ","S","I","O","S","-","C","I","E","U","C">>,
  <<"H","A","N","G","U","L"," ","J","O","N","G","S","E","O","N","G"," ","S","I","O","S","-","C","H","I","E","U","C","H">>,
  <<"H","A","N","G","U","L"," ","J","O","N","G","S","E","O","N","G"," ","S","I","O","S","-","T","H","I","E","U","T","H">>,
  <<"H","A","N","G","U","L"," ","J","O","N","G","S","E","O","N","G"," ","S","I","O","S","-","H","I","E","U","H">>,
  <<"H","A","N","G","U","L"," ","J","O","N","G","S","E","O","N","G"," ","P","A","N","S","I","O","S","-","P","I","E","U","P">>,
  <<"H","A","N","G","U","L"," ","J","O","N","G","S","E","O","N","G"," ","P","A","N","S","I","O","S","-","K","A","P","Y","E","O","U","N","P","I","E","U","P">>,
  <<"H","A","N","G","U","L"," ","J","O","N","G","S","E","O","N","G"," ","Y","E","S","I","E","U","N","G","-","M","I","E","U","M">>,
  <<"H","A","N","G","U","L"," ","J","O","N","G","S","E","O","N","G"," ","Y","E","S","I","E","U","N","G","-","H","I","E","U","H">>,
  <<"H","A","N","G","U","L"," ","J","O","N","G","S","E","O","N","G"," ","C","I","E","U","C","-","P","I","E","U","P">>,
  <<"H","A","N","G","U","L"," ","J","O","N","G","S","E","O","N","G"," ","C","I","E","U","C","-","S","S","A","N","G","P","I","E","U","P">>,
  <<"H","A","N","G","U","L"," ","J","O","N","G","S","E","O","N","G"," ","S","S","A","N","G","C","I","E","U","C">>,
  <<"H","A","N","G","U","L"," ","J","O","N","G","S","E","O","N","G"," ","P","H","I","E","U","P","H","-","S","I","O","S">>,
  <<"H","A","N","G","U","L"," ","J","O","N","G","S","E","O","N","G"," ","P","H","I","E","U","P","H","-","T","H","I","E","U","T","H">>
  >>

\* unicodedata.decomposition over U+3131..U+318E: entry i is the target t of
\* the mapping "<compat> t" of code point 0x3131 + i - 1; every other code
\* point of the four Jamo blocks has the empty decomposition.
CompatTargets ==
  <<
  4352, 4353, 4522, 4354, 4524, 4525, 4355, 4356, 4357, 4528,
  4529, 4530, 4531, 4532, 4533, 4378, 4358, 4359, 4360, 4385,
  4361, 4362, 4363, 4364, 4365, 4366, 4367, 4368, 4369, 4370,
  4449, 4450, 4451, 4452, 4453, 4454, 4455, 4456, 4457, 4458,
  4459, 4460, 4461, 4462, 4463, 4464, 4465, 4466, 4467, 4468,
  4469, 4448, 4372, 4373, 4551, 4552, 4556, 4558, 4563, 4567,
  4569, 4380, 4573, 4575, 4381, 4382, 4384, 4386, 4387, 4391,
  4393, 4395, 4396, 4397, 4398, 4399, 4402, 4406, 4416, 4423,
  4428, 4593, 4594, 4439, 4440, 4441, 4484, 4485, 4488, 4497,
  4498, 4500, 4510, 4513
  >>

\* Jamo short names (UCD Jamo.txt) from which unicodedata.name builds the
\* name of a syllable: leads, vowels, tails, in index order.
SyllableLeadNames ==
  << <<"G">>, <<"G","G">>, <<"N">>, <<"D">>, <<"D","D">>, <<"R">>, <<"M">>, <<"B">>, <<"B","B">>, <<"S">>, <<"S","S">>, <<>>, <<"J">>, <<"J","J">>, <<"C">>, <<"K">>, <<"T">>, <<"P">>, <<"H">> >>

\* vowel short names
SyllableVowelNames ==
  << <<"A">>, <<"A","E">>, <<"Y","A">>, <<"Y","A","E">>, <<"E","O">>, <<"E">>, <<"Y","E","O">>, <<"Y","E">>, <<"O">>, <<"W","A">>, <<"W","A","E">>, <<"O","E">>, <<"Y","O">>, <<"U">>, <<"W","E","O">>, <<"W","E">>, <<"W","I">>, <<"Y","U">>, <<"E","U">>, <<"Y","I">>, <<"I">> >>

\* tail short names (the first is the empty tail)
SyllableTailNames ==
  << <<>>, <<"G">>, <<"G","G">>, <<"G","S">>, <<"N">>, <<"N","J">>, <<"N","H">>, <<"D">>, <<"L">>, <<"L","G">>, <<"L","M">>, <<"L","B">>, <<"L","S">>, <<"L","T">>, <<"L","P">>, <<"L","H">>, <<"M">>, <<"B">>, <<"B","S">>, <<"S">>, <<"S","S">>, <<"N","G">>, <<"J">>, <<"C">>, <<"K">>, <<"T">>, <<"P">>, <<"H">> >>

\* ---------------------------------------------------------------------
\* unicodedata.name and unicodedata.lookup
\* ---------------------------------------------------------------------

HANGUL_SYLLABLE_ ==
  <<"H","A","N","G","U","L"," ","S","Y","L","L","A","B","L","E"," ">>

LATIN_SMALL_LETTER_A ==
  <<"L","A","T","I","N"," ","S","M","A","L","L"," ","L","E","T","T","E","R"," ","A">>

\* The name unicodedata.name gives a syllable, built from the Jamo short names.
SyllableName(c) ==
  LET r == c - 44032
  IN  HANGUL_SYLLABLE_ \o SyllableLeadNames[(r \div 588) + 1]
        \o SyllableVowelNames[((r % 588) \div 28) + 1]
        \o SyllableTailNames[(r % 28) + 1]

\* unicodedata.name(char) over the four Jamo blocks, the syllables and the
\* letter "a"; <<>> stands for the ValueError of a character without a name.
\* Only hcj_to_jamo asks for the name of a character that is no Jamo, and it
\* is given the characters of JamoSamples: of these U+0000 and U+3130 have
\* no name.
UnicodeName(c) ==
  IF 4352 <= c /\ c <= 4607 THEN JamoNames[c - 4352 + 1]
  ELSE IF 12593 <= c /\ c <= 12686 THEN HcjNames[c - 12593 + 1]
  ELSE IF 43360 <= c /\ c <= 43388 THEN ExtANames[c - 43360 + 1]
  ELSE IF 55216 <= c /\ c <= 55291 THEN ExtBNames[c - 55216 + 1]
  ELSE IF 44032 <= c /\ c <= 55203 THEN SyllableName(c)
  ELSE IF c = 97 THEN LATIN_SMALL_LETTER_A
  ELSE <<>>

\* The characters a name that jamo.py looks up can resolve to: the named
\* characters of the four Jamo blocks and "a".  (jamo.py looks up a name
\* only after writing LETTER, CHOSEONG, JUNGSEONG or JONGSEONG behind
\* "HANGUL ", or unchanged; no such name is a syllable's.)
LookupChars ==
  (4352..4607) \cup (12593..12686) \cup (43360..43388)
    \cup (55216..55238) \cup (55243..55291) \cup {97}

\* The character of each name of LookupChars (names are unique).
LookupTable ==
  [name \in {UnicodeName(c) : c \in LookupChars} |->
     CHOOSE c \in LookupChars : UnicodeName(c) = name]

\* table[name], or KeyError
lookup_in(table, name) ==
  IF name \in DOMAIN table THEN Return("str", table[name])
  ELSE Raise("KeyError")

\* unicodedata.lookup(name): the character of that name, or KeyError.
unicodedata_lookup(name) == lookup_in(LookupTable, name)

\* ---------------------------------------------------------------------
\* Constants and ranges (jamo.py lines 20-49)
\* ---------------------------------------------------------------------

_JAMO_OFFSET == 44032
_JAMO_LEAD_OFFSET == 4351
_JAMO_VOWEL_OFFSET == 4448
_JAMO_TAIL_OFFSET == 4519

\* range(a, b)
range(a, b) == a..(b - 1)

JAMO_LEADS == range(4352, 4447)            \* range(0x1100, 0x115F)
JAMO_LEADS_MODERN == range(4352, 4371)     \* range(0x1100, 0x1113)
JAMO_VOWELS == range(4449, 4520)           \* range(0x1161, 0x11A8)
JAMO_VOWELS_MODERN == range(4449, 4470)    \* range(0x1161, 0x1176)
JAMO_TAILS == range(4520, 4608)            \* range(0x11A8, 0x1200)
JAMO_TAILS_MODERN == range(4520, 4547)     \* range(0x11A8, 0x11C3)

\* ---------------------------------------------------------------------
\* Classifier
\* ---------------------------------------------------------------------

is_hcj(character) ==
  12593 <= character /\ character <= 12686 /\ character # 12644

is_hcj_modern(character) ==
  \/ 12593 <= character /\ character <= 12622
  \/ 12623 <= character /\ character <= 12643

is_jamo(character) ==
  \/ 4352 <= character /\ character <= 4607
  \/ 43360 <= character /\ character <= 43388
  \/ 55216 <= character /\ character <= 55238
  \/ 55243 <= character /\ character <= 55291
  \/ is_hcj(character)

is_jamo_modern(character) ==
  \/ 4352 <= character /\ character <= 4370
  \/ 4449 <= character /\ character <= 4469
  \/ 4520 <= character /\ character <= 4546
  \/ is_hcj_modern(character)

is_hangul_char(character) == 44032 <= character /\ character <= 55203

_get_unicode_name(char) == UnicodeName(char)

\* get_jamo_class without the test for the lead filler U+115F, which
\* range(0x1100, 0x115F) leaves out.
Mutant_get_jamo_class(jamo) ==
  IF jamo \in JAMO_LEADS THEN Return("str", "lead")
  ELSE IF \/ jamo \in JAMO_VOWELS
          \/ jamo = 4448
          \/ (12623 <= jamo /\ jamo <= 12643)
       THEN Return("str", "vowel")
  ELSE IF jamo \in JAMO_TAILS THEN Return("str", "tail")
  ELSE Raise("InvalidJamoError")

\* get_jamo_class(jamo): "lead", "vowel" or "tail", or InvalidJamoError.
get_jamo_class(jamo) ==
  IF jamo \in JAMO_LEADS \/ jamo = 4447 THEN Return("str", "lead")
  ELSE IF \/ jamo \in JAMO_VOWELS
          \/ jamo = 4448
          \/ (12623 <= jamo /\ jamo <= 12643)
       THEN Return("str", "vowel")
  ELSE IF jamo \in JAMO_TAILS THEN Return("str", "tail")
  ELSE Raise("InvalidJamoError")

SSANG == <<"S","S","A","N","G">>
KAPYEOUN == <<"K","A","P","Y","E","O","U","N">>
ARAEAE == <<"A","R","A","E","A","E">>

\* is_jamo_compound without the test for "W" (the diphthongs).
Mutant_is_jamo_compound(character) ==
  IF Len(character) # 1 THEN Return("bool", FALSE)
  ELSE IF is_jamo(character[1])
  THEN LET character_name == UnicodeName(character[1])
       IN  IF Contains(character_name, <<"-">>) THEN Return("bool", TRUE)
           ELSE IF Contains(character_name, SSANG) THEN Return("bool", TRUE)
           ELSE IF Contains(character_name, KAPYEOUN) THEN Return("bool", TRUE)
           ELSE IF \/ Contains(character_name, <<"Y","I">>)
                   \/ Contains(character_name, <<"O","E">>)
                THEN Return("bool", TRUE)
           ELSE IF Contains(character_name, ARAEAE) THEN Return("bool", TRUE)
           ELSE Return("bool", FALSE)
  ELSE Return("bool", FALSE)

\* is_jamo_compound(character): character is a str (of any length).
is_jamo_compound(character) ==
  IF Len(character) # 1 THEN Return("bool", FALSE)
  ELSE IF is_jamo(character[1])
  THEN LET character_name == UnicodeName(character[1])
       IN  IF Contains(character_name, <<"-">>) THEN Return("bool", TRUE)
           ELSE IF Contains(character_name, SSANG) THEN Return("bool", TRUE)
           ELSE IF Contains(character_name, KAPYEOUN) THEN Return("bool", TRUE)
           ELSE IF Contains(character_name, <<"W">>) THEN Return("bool", TRUE)
           ELSE IF \/ Contains(character_name, <<"Y","I">>)
                   \/ Contains(character_name, <<"O","E">>)
                THEN Return("bool", TRUE)
           ELSE IF Contains(character_name, ARAEAE) THEN Return("bool", TRUE)
           ELSE Return("bool", FALSE)
  ELSE Return("bool", FALSE)

\* ---------------------------------------------------------------------
\* Syllable codec
\* ---------------------------------------------------------------------

\* _hangul_char_to_jamo with the vowel index taken from the first vowel
\* U+1161 instead of the vowel offset.
Mutant_hangul_char_to_jamo(syllable) ==
  IF is_hangul_char(syllable)
  THEN LET rem == syllable - _JAMO_OFFSET
           tail == rem % 28
           vowel == 1 + ((rem - tail) % 588) \div 28
           lead == 1 + rem \div 588
       IN  IF tail # 0
           THEN Return("tuple", <<lead + _JAMO_LEAD_OFFSET,
                                  vowel + _JAMO_VOWEL_OFFSET + 1,
                                  tail + _JAMO_TAIL_OFFSET>>)
           ELSE Return("tuple", <<lead + _JAMO_LEAD_OFFSET,
                                  vowel + _JAMO_VOWEL_OFFSET + 1>>)
  ELSE Return("str", <<syllable>>)

\* _hangul_char_to_jamo(syllable): the tuple of its Jamo, or the character
\* itself (a str) when it is no syllable.
_hangul_char_to_jamo(syllable) ==
  IF is_hangul_char(syllable)
  THEN LET rem == syllable - _JAMO_OFFSET
           tail == rem % 28
           vowel == 1 + ((rem - tail) % 588) \div 28
           lead == 1 + rem \div 588
       IN  IF tail # 0
           THEN Return("tuple", <<lead + _JAMO_LEAD_OFFSET,
                                  vowel + _JAMO_VOWEL_OFFSET,
                                  tail + _JAMO_TAIL_OFFSET>>)
           ELSE Return("tuple", <<lead + _JAMO_LEAD_OFFSET,
                                  vowel + _JAMO_VOWEL_OFFSET>>)
  ELSE Return("str", <<syllable>>)

\* _jamo_to_hangul_char with the lead index not reduced by one.
Mutant_jamo_to_hangul_char(lead, vowel, tail) ==
  LET l == lead - _JAMO_LEAD_OFFSET
      v == vowel - _JAMO_VOWEL_OFFSET
      t == IF tail # <<>> THEN tail[1] - _JAMO_TAIL_OFFSET ELSE 0
  IN  t + (v - 1) * 28 + l * 588 + _JAMO_OFFSET

\* _jamo_to_hangul_char(lead, vowel, tail): tail is <<>> (None) or <<char>>.
_jamo_to_hangul_char(lead, vowel, tail) ==
  LET l == lead - _JAMO_LEAD_OFFSET
      v == vowel - _JAMO_VOWEL_OFFSET
      t == IF tail # <<>> THEN tail[1] - _JAMO_TAIL_OFFSET ELSE 0
  IN  t + (v - 1) * 28 + (l - 1) * 588 + _JAMO_OFFSET

\* ---------------------------------------------------------------------
\* Name bridge (Jamo <-> HCJ)
\* ---------------------------------------------------------------------

LETTER == <<"L","E","T","T","E","R">>
CHOSEONG == <<"C","H","O","S","E","O","N","G">>
JUNGSEONG == <<"J","U","N","G","S","E","O","N","G">>
JONGSEONG == <<"J","O","N","G","S","E","O","N","G">>

\* try: return unicodedata.lookup(name); except KeyError: return char
lookup_or_echo(found, char) ==
  IF found.exc = "" THEN Return("str", <<found.val>>)
  ELSE Return("str", <<char>>)

\* return unicodedata.lookup(name), without the except clause
Mutant_lookup_or_echo(found, char) ==
  IF found.exc = "" THEN Return("str", <<found.val>>)
  ELSE Raise("KeyError")

\* _jamo_char_to_hcj that lets the KeyError of a failed lookup through.
Mutant_jamo_char_to_hcj(char) ==
  IF is_jamo(char)
  THEN Mutant_lookup_or_echo(
         unicodedata_lookup(re_sub_HANGUL(LETTER, _get_unicode_name(char))),
         char)
  ELSE Return("str", <<char>>)

\* _jamo_char_to_hcj(char): the HCJ character of a Jamo's name, else char.
\* (Every character is_jamo accepts has a name.)
_jamo_char_to_hcj(char) ==
  IF is_jamo(char)
  THEN lookup_or_echo(
         unicodedata_lookup(re_sub_HANGUL(LETTER, _get_unicode_name(char))),
         char)
  ELSE Return("str", <<char>>)

\* ''.join of the conversion of the first character and of the rest
join_converted(head, rest) ==
  IF head.exc # "" THEN head
  ELSE IF rest.exc # "" THEN rest
  ELSE Return("str", head.val \o rest.val)

\* j2hcj(jamo) = ''.join(jamo_to_hcj(jamo)): the conversion of each
\* character of the string, in order; an exception of one ends the call.
RECURSIVE j2hcj(_)
j2hcj(jamo) ==
  IF jamo = <<>> THEN Return("str", <<>>)
  ELSE join_converted(_jamo_char_to_hcj(jamo[1]), j2hcj(Tail(jamo)))

\* Lines 262-270 of hcj_to_jamo, given the name of hcj_char (<<>>: the
\* ValueError of unicodedata.name, for a character that has no name).
hcj_name_to_jamo(name, jamo_class, hcj_char) ==
  IF name = <<>> THEN Raise("ValueError")
  ELSE lookup_or_echo(unicodedata_lookup(re_sub_HANGUL(jamo_class, name)),
                      hcj_char)

\* hcj_to_jamo(hcj_char, position): position is "lead", "vowel" or "tail"
\* (anything else: InvalidJamoError).
hcj_to_jamo(hcj_char, position) ==
  IF position \notin {"lead", "vowel", "tail"} THEN Raise("InvalidJamoError")
  ELSE hcj_name_to_jamo(_get_unicode_name(hcj_char),
                        IF position = "lead" THEN CHOSEONG
                        ELSE IF position = "vowel" THEN JUNGSEONG
                        ELSE JONGSEONG,
                        hcj_char)

\* ---------------------------------------------------------------------
\* Whole-string syllable decomposition and syllable composition
\* ---------------------------------------------------------------------

\* h2j that chains the results from the last character to the first.
RECURSIVE Mutant_h2j(_)
Mutant_h2j(hangul_string) ==
  IF hangul_string = <<>> THEN Return("str", <<>>)
  ELSE LET head == _hangul_char_to_jamo(hangul_string[1])
           rest == Mutant_h2j(Tail(hangul_string))
       IN  Return("str", rest.val \o head.val)

\* h2j(hangul_string) = ''.join(hangul_to_jamo(hangul_string)): the chain of
\* the per-character results (a tuple's elements, a str's characters).
RECURSIVE h2j(_)
h2j(hangul_string) ==
  IF hangul_string = <<>> THEN Return("str", <<>>)
  ELSE LET head == _hangul_char_to_jamo(hangul_string[1])
           rest == h2j(Tail(hangul_string))
       IN  Return("str", head.val \o rest.val)

\* Lines 322-330 of jamo_to_hangul, given what lines 318-321 made of the
\* lead, the vowel and the tail.
synthesize(lead1, vowel1, tail1) ==
  IF lead1.exc # "" THEN lead1
  ELSE IF vowel1.exc # "" THEN vowel1
  ELSE IF tail1.exc # "" THEN tail1
  ELSE
    LET l == lead1.val[1]
        v == vowel1.val[1]
        t == tail1.val
        \* the three conjuncts of the condition, each True, False or the
        \* InvalidJamoError of get_jamo_class; `and` stops at the first False
        lead_ok == IF ~is_jamo(l) THEN "False"
                   ELSE IF get_jamo_class(l).exc # "" THEN "InvalidJamoError"
                   ELSE IF get_jamo_class(l).val = "lead" THEN "True" ELSE "False"
        vowel_ok == IF ~is_jamo(v) THEN "False"
                    ELSE IF get_jamo_class(v).exc # "" THEN "InvalidJamoError"
                    ELSE IF get_jamo_class(v).val = "vowel" THEN "True" ELSE "False"
        tail_ok == IF t = <<>> THEN "True"
                   ELSE IF ~is_jamo(t[1]) THEN "False"
                   ELSE IF get_jamo_class(t[1]).exc # "" THEN "InvalidJamoError"
                   ELSE IF get_jamo_class(t[1]).val = "tail" THEN "True" ELSE "False"
        cond == IF lead_ok # "True" THEN lead_ok
                ELSE IF vowel_ok # "True" THEN vowel_ok
                ELSE tail_ok
    IN  IF cond = "InvalidJamoError" THEN Raise("InvalidJamoError")
        ELSE IF cond = "True" /\ is_hangul_char(_jamo_to_hangul_char(l, v, t))
             THEN Return("str", <<_jamo_to_hangul_char(l, v, t)>>)
        ELSE Raise("InvalidJamoError")

\* jamo_to_hangul(lead, vowel, tail): lead and vowel are characters, tail is
\* a str of length 0 (the default '') or 1.
jamo_to_hangul(lead, vowel, tail) ==
  synthesize(hcj_to_jamo(lead, "lead"),
             hcj_to_jamo(vowel, "vowel"),
             IF tail = <<>> \/ tail[1] = 0 THEN Return("NoneType", <<>>)
             ELSE IF is_hcj(tail[1]) THEN hcj_to_jamo(tail[1], "tail")
             ELSE Return("str", tail))

\* ---------------------------------------------------------------------
\* Hex code point strings
\* ---------------------------------------------------------------------

HexDigits == <<"0","1","2","3","4","5","6","7","8","9","A","B","C","D","E","F">>
HexDigitsLower == <<"0","1","2","3","4","5","6","7","8","9","a","b","c","d","e","f">>

\* hex(n)[2:] written with the given digits
RECURSIVE HexString(_, _)
HexString(n, digits) ==
  IF n < 16 THEN <<digits[n + 1]>>
  ELSE HexString(n \div 16, digits) \o <<digits[(n % 16) + 1]>>

\* str(hex(ord(jamo)))[2:].upper()
HexUpper(n) == HexString(n, HexDigits)

\* hex(ord(component)): "0x" and lower-case digits
hex(n) == <<"0", "x">> \o HexString(n, HexDigitsLower)

\* int(component, 16), for the upper-case digits the decompositions hold
RECURSIVE int16(_)
int16(s) ==
  IF s = <<>> THEN 0
  ELSE int16(SubSeq(s, 1, Len(s) - 1)) * 16
         + ((CHOOSE i \in 1..16 : HexDigits[i] = s[Len(s)]) - 1)

\* str.split(): the words between runs of spaces
SplitWhitespace(s) == SelectSeq(Split(s, " "), LAMBDA w : w # <<>>)

\* ---------------------------------------------------------------------
\* Tables of the repository that are not in jamo.py
\* ---------------------------------------------------------------------

\* JAMO_COMPOUNDS_MODERN_DICTIONARY, in the order of its items: compound ->
\* pair of basic letters, all HCJ.  The double consonants, the consonant
\* clusters and the diphthongs of the modern set.
JAMO_COMPOUNDS_MODERN_DICTIONARY ==
  << <<12594, <<12593, 12593>> >>,   \* SSANGKIYEOK = KIYEOK KIYEOK
     <<12600, <<12599, 12599>> >>,   \* SSANGTIKEUT
     <<12611, <<12610, 12610>> >>,   \* SSANGPIEUP
     <<12614, <<12613, 12613>> >>,   \* SSANGSIOS
     <<12617, <<12616, 12616>> >>,   \* SSANGCIEUC
     <<12595, <<12593, 12613>> >>,   \* KIYEOK-SIOS
     <<12597, <<12596, 12616>> >>,   \* NIEUN-CIEUC
     <<12598, <<12596, 12622>> >>,   \* NIEUN-HIEUH
     <<12602, <<12601, 12593>> >>,   \* RIEUL-KIYEOK
     <<12603, <<12601, 12609>> >>,   \* RIEUL-MIEUM
     <<12604, <<12601, 12610>> >>,   \* RIEUL-PIEUP
     <<12605, <<12601, 12613>> >>,   \* RIEUL-SIOS
     <<12606, <<12601, 12620>> >>,   \* RIEUL-THIEUTH
     <<12607, <<12601, 12621>> >>,   \* RIEUL-PHIEUPH
     <<12608, <<12601, 12622>> >>,   \* RIEUL-HIEUH
     <<12612, <<12610, 12613>> >>,   \* PIEUP-SIOS
     <<12632, <<12631, 12623>> >>,   \* WA = O A
     <<12633, <<12631, 12624>> >>,   \* WAE = O AE
     <<12634, <<12631, 12643>> >>,   \* OE = O I
     <<12637, <<12636, 12627>> >>,   \* WEO = U EO
     <<12638, <<12636, 12628>> >>,   \* WE = U E
     <<12639, <<12636, 12643>> >>,   \* WI = U I
     <<12642, <<12641, 12643>> >> >> \* YI = EU I

\* The content of data/U+11xx.json, the auxiliary decompositions: for each
\* modern compound Jamo of U+1100..U+11FF, the Jamo of its two letters.
AuxiliaryDecompositions ==
  { <<4353, <<4352, 4352>> >>, <<4356, <<4355, 4355>> >>,
    <<4360, <<4359, 4359>> >>, <<4362, <<4361, 4361>> >>,
    <<4365, <<4364, 4364>> >>,
    <<4458, <<4457, 4449>> >>, <<4459, <<4457, 4450>> >>,
    <<4460, <<4457, 4469>> >>, <<4463, <<4462, 4453>> >>,
    <<4464, <<4462, 4454>> >>, <<4465, <<4462, 4469>> >>,
    <<4468, <<4467, 4469>> >>,
    <<4521, <<4520, 4520>> >>, <<4522, <<4520, 4538>> >>,
    <<4524, <<4523, 4541>> >>, <<4525, <<4523, 4546>> >>,
    <<4528, <<4527, 4520>> >>, <<4529, <<4527, 4535>> >>,
    <<4530, <<4527, 4536>> >>, <<4531, <<4527, 4538>> >>,
    <<4532, <<4527, 4544>> >>, <<4533, <<4527, 4545>> >>,
    <<4534, <<4527, 4546>> >>, <<4537, <<4536, 4538>> >>,
    <<4539, <<4538, 4538>> >> }

\* hex_components_dictionary: upper-case hex code point -> the hex code
\* points of the components, separated by spaces.
hex_components_dictionary ==
  [codepoint \in {HexUpper(e[1]) : e \in AuxiliaryDecompositions} |->
     LET e == CHOOSE e \in AuxiliaryDecompositions : HexUpper(e[1]) = codepoint
     IN  Join([i \in 1..Len(e[2]) |-> HexUpper(e[2][i])], <<" ">>)]

\* ---------------------------------------------------------------------
\* Decomposition engine
\* ---------------------------------------------------------------------

COMPAT == <<"<","c","o","m","p","a","t",">">>

\* unicodedata.decomposition(jamo) for a character is_jamo accepts.
unicodedata_decomposition(jamo) ==
  IF 12593 <= jamo /\ jamo <= 12686
  THEN COMPAT \o <<" ">> \o HexUpper(CompatTargets[jamo - 12593 + 1])
  ELSE <<>>

_decompose_jamo_to_hex(jamo) ==
  IF ~is_jamo(jamo) THEN Raise("InvalidJamoError")
  ELSE LET codepoint == HexUpper(jamo)
           components_string == unicodedata_decomposition(jamo)
       IN  IF components_string = <<>>
           THEN Return("str", IF codepoint \in DOMAIN hex_components_dictionary
                              THEN hex_components_dictionary[codepoint]
                              ELSE <<>>)
           ELSE Return("str", components_string)

\* _decompose_jamo_to_hex_recursive(jamo), and its loop over the components
\* still to visit, with the decomposition built so far.
RECURSIVE _decompose_jamo_to_hex_recursive(_), decompose_components(_, _)
decompose_components(components, decomposition) ==
  IF components = <<>> THEN Return("str", decomposition)
  ELSE LET component == Head(components)
           spaced == IF Len(decomposition) > 0 THEN decomposition \o <<" ">>
                     ELSE decomposition
       IN  IF component[1] = "<"
           THEN decompose_components(Tail(components), spaced \o component)
           ELSE LET intermediate_decomposition ==
                      _decompose_jamo_to_hex_recursive(int16(component))
                IN  IF intermediate_decomposition.exc # ""
                    THEN intermediate_decomposition
                    ELSE IF intermediate_decomposition.val = <<>>
                    THEN decompose_components(Tail(components), spaced \o component)
                    ELSE decompose_components(Tail(components),
                           spaced \o intermediate_decomposition.val)

_decompose_jamo_to_hex_recursive(jamo) ==
  LET hex_components == _decompose_jamo_to_hex(jamo)
  IN  IF hex_components.exc # "" THEN hex_components
      ELSE decompose_components(SplitWhitespace(hex_components.val), <<>>)

\* A component of a decomposition: a character, or a notation such as
\* "<compat>" (a str of several letters).
CharComponent(c) == [tag |-> <<>>, ch |-> c]
TagComponent(t) == [tag |-> t, ch |-> 0 - 1]
IsTag(component) == component.tag # <<>>

\* Lines 413-423: the components of the hex string as characters.
RECURSIVE character_components_of(_)
character_components_of(hex_components) ==
  IF hex_components = <<>> THEN Return("list", <<>>)
  ELSE LET hex_component == Head(hex_components)
           rest == character_components_of(Tail(hex_components))
       IN  IF hex_component[1] = "<"
           THEN IF rest.exc # "" THEN rest
                ELSE Return("list", <<TagComponent(hex_component)>> \o rest.val)
           ELSE IF ~is_jamo(int16(hex_component)) THEN Raise("InvalidJamoError")
           ELSE IF rest.exc # "" THEN rest
           ELSE Return("list", <<CharComponent(int16(hex_component))>> \o rest.val)

\* Lines 429-438: the component whose name has these words, in the class
\* of the compound if its own is another and a character has that name.
corrected_component(component, test_component_name, jamo_class) ==
  IF test_component_name[2] # jamo_class
  THEN LET test_component ==
             unicodedata_lookup(
               Join([test_component_name EXCEPT ![2] = jamo_class], <<" ">>))
       IN  IF test_component.exc = "" THEN CharComponent(test_component.val)
           ELSE component
  ELSE component

\* Lines 424-438: a component of another class than the compound's is
\* replaced by the character of its name in the compound's class, if any.
correct_class(character_components, jamo_class) ==
  [idx \in 1..Len(character_components) |->
     IF IsTag(character_components[idx]) THEN character_components[idx]
     ELSE corrected_component(
            character_components[idx],
            SplitWhitespace(UnicodeName(character_components[idx].ch)),
            jamo_class)]

\* list.remove(x): without the first element equal to x
RECURSIVE list_remove(_, _)
list_remove(list, x) ==
  IF list = <<>> THEN <<>>
  ELSE IF Head(list) = x THEN Tail(list)
  ELSE <<Head(list)>> \o list_remove(Tail(list), x)

RECURSIVE list_remove_all(_, _)
list_remove_all(list, to_strip) ==
  IF to_strip = <<>> THEN list
  ELSE list_remove_all(list_remove(list, Head(to_strip)), Tail(to_strip))

\* Lines 440-449: without the notations, the characters that are no Jamo
\* and the components whose hex() is '0x1160' or '0x115F'.
strip_components(character_components) ==
  LET to_strip ==
        SelectSeq(character_components,
                  LAMBDA component :
                    \/ IsTag(component)
                    \/ ~is_jamo(component.ch)
                    \/ hex(component.ch) \in { <<"0","x","1","1","6","0">>,
                                              <<"0","x","1","1","5","F">> })
  IN  list_remove_all(character_components, to_strip)

\* Lines 451-456: the character itself, the only component, or the tuple.
collapse(character_components, jamo) ==
  IF Len(character_components) = 0 THEN Return("str", <<CharComponent(jamo)>>)
  ELSE IF Len(character_components) = 1 THEN Return("str", character_components)
  ELSE Return("tuple", character_components)

\* One turn of the while loop of lines 465-475 from the part at index i on:
\* the first part with a hyphen is removed and its pieces are appended; a
\* part with SSANG (and no hyphen) is removed and appended twice without
\* SSANG.  The forms are returned unchanged when no part has either.
RECURSIVE forms_turn(_, _)
forms_turn(forms, i) ==
  IF i > Len(forms) THEN forms
  ELSE LET part == forms[i]
           others == SubSeq(forms, 1, i - 1) \o SubSeq(forms, i + 1, Len(forms))
       IN  IF Contains(part, <<"-">>) THEN others \o Split(part, "-")
           ELSE IF Contains(part, SSANG)
           THEN others \o <<Remove(part, SSANG), Remove(part, SSANG)>>
           ELSE forms_turn(forms, i + 1)

\* The while loop of lines 465-475; "Hang" when a turn changes nothing
\* while the condition holds (the loop never ends).
RECURSIVE forms_loop(_)
forms_loop(forms) ==
  IF Contains(Join(forms, <<>>), SSANG) \/ Contains(Join(forms, <<>>), <<"-">>)
  THEN IF forms_turn(forms, 1) = forms THEN Raise("Hang")
       ELSE forms_loop(forms_turn(forms, 1))
  ELSE Return("list", forms)

\* The list with the character found put in front; an exception goes on.
prepend_found(found, rest) ==
  IF found.exc # "" THEN found
  ELSE IF rest.exc # "" THEN rest
  ELSE Return("list", <<CharComponent(found.val)>> \o rest.val)

\* Lines 476-479: the characters of the forms under the prefix; the
\* KeyError of a failed lookup is not caught.
RECURSIVE lookup_forms(_, _)
lookup_forms(prefix, forms) ==
  IF forms = <<>> THEN Return("list", <<>>)
  ELSE prepend_found(unicodedata_lookup(prefix \o <<" ">> \o Head(forms)),
                     lookup_forms(prefix, Tail(forms)))

HANGUL_SYLLABLE_SSANG ==
  <<"H","A","N","G","U","L"," ","S","Y","L","L","A","B","L","E"," ","S","S","A","N","G">>

\* Lines 460-461: the condition on the name of the character.
name_calls_for_fallback(jamo_name) ==
  \/ Contains(jamo_name, SSANG)
  \/ (Contains(jamo_name, <<"-">>) /\ jamo_name # HANGUL_SYLLABLE_SSANG)

\* Lines 458-461: whether the name-based fallback is taken for what lines
\* 410-456 produced.
fallback_taken(character_components, jamo) ==
  /\ character_components = Return("str", <<CharComponent(jamo)>>)
  /\ name_calls_for_fallback(UnicodeName(jamo))

\* Lines 462-479, given the words of the name.
fallback_of_words(words) ==
  IF Len(words) # 3 THEN Raise("AssertionError")
  ELSE LET forms == forms_loop(<<words[Len(words)]>>)
       IN  IF forms.exc # "" THEN forms
           ELSE lookup_forms(Join(SubSeq(words, 1, 2), <<" ">>), forms.val)

fallback(jamo) == fallback_of_words(SplitWhitespace(UnicodeName(jamo)))

\* Lines 439-456, given the components after the class correction.
strip_and_collapse(corrected, jamo, verbose) ==
  collapse(IF ~verbose THEN strip_components(corrected) ELSE corrected, jamo)

\* Lines 413-456, given the hex components.
components_by_tables(hex_components, jamo, verbose) ==
  IF hex_components.exc # "" THEN hex_components
  ELSE LET character_components ==
             character_components_of(SplitWhitespace(hex_components.val))
       IN  IF character_components.exc # "" THEN character_components
           ELSE strip_and_collapse(
                  correct_class(character_components.val,
                                SplitWhitespace(UnicodeName(jamo))[2]),
                  jamo, verbose)

\* Lines 412-456 of decompose_jamo, for a character is_jamo accepts.
decompose_by_tables(jamo, verbose) ==
  components_by_tables(_decompose_jamo_to_hex_recursive(jamo), jamo, verbose)

\* Lines 480-483: the components, or InvalidJamoError when strict and the
\* character came back.
strict_check(character_components, jamo, strict) ==
  IF /\ character_components.exc = ""
     /\ strict
     /\ character_components = Return("str", <<CharComponent(jamo)>>)
  THEN Raise("InvalidJamoError")
  ELSE character_components

\* Lines 457-479: the components of the fallback when it is taken.
with_fallback(by_tables, jamo) ==
  IF by_tables.exc = "" /\ fallback_taken(by_tables, jamo)
  THEN fallback(jamo)
  ELSE by_tables

\* decompose_jamo(jamo, verbose, strict): the value is the sequence of the
\* components returned (of type str when it is one component by itself).
decompose_jamo(jamo, verbose, strict) ==
  IF ~is_jamo(jamo) THEN Raise("InvalidJamoError")
  ELSE strict_check(with_fallback(decompose_by_tables(jamo, verbose), jamo),
                    jamo, strict)

\* ---------------------------------------------------------------------
\* Composition engine
\* ---------------------------------------------------------------------

\* An argument of compose_jamo: a str, or an int.
PyStr(s) == [type |-> "str", v |-> s]
PyInt(n) == [type |-> "int", v |-> <<n>>]

\* compose_jamo that returns the first compound whose first letter matches.
Mutant_compose_jamo(parts) ==
  IF \E i \in 1..Len(parts) :
       ~(parts[i].type = "str" /\ Len(parts[i].v) = 1
           /\ 2 <= Len(parts) /\ Len(parts) <= 3)
  THEN Raise("TypeError")
  ELSE LET hcparts == [i \in 1..Len(parts) |-> j2hcj(parts[i].v).val]
           matching ==
             {k \in 1..Len(JAMO_COMPOUNDS_MODERN_DICTIONARY) :
                LET compound == JAMO_COMPOUNDS_MODERN_DICTIONARY[k][1]
                    dict_parts == JAMO_COMPOUNDS_MODERN_DICTIONARY[k][2]
                IN  /\ hcparts # <<>>
                    /\ hcparts[1] = j2hcj(<<dict_parts[1]>>).val
                    /\ is_jamo(compound)}
       IN  IF matching = {} THEN Raise("InvalidJamoError")
           ELSE Return("str",
                  <<JAMO_COMPOUNDS_MODERN_DICTIONARY[
                      CHOOSE k \in matching : \A other \in matching : k <= other][1]>>)

\* compose_jamo(*parts): the first compound of the dictionary, in the order
\* of its items, whose parts are those given, all taken to HCJ.
compose_jamo(parts) ==
  IF \E i \in 1..Len(parts) :
       ~(parts[i].type = "str" /\ Len(parts[i].v) = 1
           /\ 2 <= Len(parts) /\ Len(parts) <= 3)
  THEN Raise("TypeError")
  ELSE LET hcparts == [i \in 1..Len(parts) |-> j2hcj(parts[i].v).val]
           matching ==
             {k \in 1..Len(JAMO_COMPOUNDS_MODERN_DICTIONARY) :
                LET compound == JAMO_COMPOUNDS_MODERN_DICTIONARY[k][1]
                    dict_parts == JAMO_COMPOUNDS_MODERN_DICTIONARY[k][2]
                    hcdict_parts ==
                      [i \in 1..Len(dict_parts) |-> j2hcj(<<dict_parts[i]>>).val]
                IN  hcparts = hcdict_parts /\ is_jamo(compound)}
       IN  IF matching = {} THEN Raise("InvalidJamoError")
           ELSE Return("str",
                  <<JAMO_COMPOUNDS_MODERN_DICTIONARY[
                      CHOOSE k \in matching : \A other \in matching : k <= other][1]>>)

\* ---------------------------------------------------------------------
\* The caller: a run is one call of a public function on an input, which
\* may be followed by a call that is given its result.
\* ---------------------------------------------------------------------

\* The code points the one-character functions are called on: 0..MaxCodePoint.
MaxCodePoint == 65535
CodePoints == 0..MaxCodePoint

\* The longest string given to h2j.
MaxLen == 3

\* Characters of the strings given to h2j: syllables without and with a
\* tail, the first and the last syllable, the code points next to the
\* syllable block, a Jamo and "a".
TextSamples == {44032, 54620, 55203, 44031, 55204, 4352, 97}

\* Characters given as lead, vowel and tail to jamo_to_hangul: the ends of
\* the modern and of the full lead, vowel and tail ranges, the fillers, HCJ
\* letters, characters of the extended blocks, syllables, and characters
\* that are no Jamo ("a", HANGUL FILLER).
JamoSamples ==
  { 97,
    4352, 4370, 4371, 4446, 4447,
    4448, 4449, 4469, 4470, 4519,
    4520, 4546, 4547, 4607,
    12593, 12595, 12600, 12623, 12643, 12644,
    43360, 55216, 55243,
    44032, 50500 }

\* Two characters without a name: U+0000 and the unassigned U+3130.
Unnamed == {0, 12592}

\* Characters of the strings given to j2hcj: a lead, a vowel, a tail, an
\* HCJ letter, a Jamo without an HCJ letter (U+A960), a syllable and "a".
HcjSamples == {4352, 4449, 4520, 12593, 43360, 44032, 97}

\* The strings over a set of characters, up to a length
RECURSIVE Strings(_, _)
Strings(chars, n) ==
  IF n = 0 THEN {<<>>}
  ELSE LET shorter == Strings(chars, n - 1)
       IN  shorter \cup {Append(s, c) : s \in {t \in shorter : Len(t) = n - 1}, c \in chars}

\* The most arguments given to compose_jamo.
MaxParts == 4

\* Arguments of compose_jamo beyond the letters of the dictionary: an HCJ
\* letter, a lead, the empty str, a str of two characters and an int.
PartSamples ==
  { PyStr(<<12593>>), PyStr(<<12613>>), PyStr(<<4352>>),
    PyStr(<<>>), PyStr(<<12593, 12593>>), PyInt(4352) }

\* The letters the compounds of the dictionary are made of, as HCJ and in
\* the positional forms they have.
DictionaryLetters ==
  { 4352, 4354, 4355, 4357, 4358, 4359, 4361, 4364, 4368, 4369,
    4370, 4449, 4450, 4453, 4454, 4457, 4462, 4467, 4469, 4520,
    4523, 4526, 4527, 4535, 4536, 4538, 4541, 4544, 4545, 4546,
    12593, 12596, 12599, 12601, 12609, 12610, 12613, 12616, 12620, 12621,
    12622, 12623, 12624, 12627, 12628, 12631, 12636, 12641, 12643 }

\* Characters given to decompose_jamo: the modern Jamo and HCJ, the
\* characters of the extended blocks A and B, the fillers, a syllable and
\* "a".  The archaic Jamo of U+1100..U+11FF are left out: what they
\* decompose to is a matter of the auxiliary table alone.
DecomposeSamples ==
  {c \in CodePoints : is_jamo_modern(c)}
    \cup (43360..43388) \cup (55216..55238) \cup (55243..55291)
    \cup {4447, 4448, 12644, 44032, 97}

Init ==
  /\ call = ""
  /\ args = <<>>
  /\ ret = Return("NoneType", <<>>)
  /\ prev = <<>>

\* _hangul_char_to_jamo(c)
Call_hangul_char_to_jamo ==
  /\ call = ""
  /\ \E c \in CodePoints :
       /\ call' = "_hangul_char_to_jamo"
       /\ args' = <<c>>
       /\ ret' = _hangul_char_to_jamo(c)
       /\ prev' = <<>>

\* jamo_to_hangul(*jamo) with the tuple the preceding _hangul_char_to_jamo
\* returned
Call_jamo_to_hangul_of_split ==
  /\ call = "_hangul_char_to_jamo"
  /\ ret.type = "tuple"
  /\ call' = "jamo_to_hangul"
  /\ args' = ret.val
  /\ ret' = jamo_to_hangul(ret.val[1], ret.val[2],
                           IF Len(ret.val) = 3 THEN <<ret.val[3]>> ELSE <<>>)
  /\ prev' = <<args>>

\* jamo_to_hangul(lead, vowel) and jamo_to_hangul(lead, vowel, tail)
Call_jamo_to_hangul ==
  /\ call = ""
  /\ \E lead \in JamoSamples, vowel \in JamoSamples,
        tail \in {<<>>} \cup {<<c>> : c \in JamoSamples \cup {0}} :
       /\ call' = "jamo_to_hangul"
       /\ args' = <<lead, vowel>> \o tail
       /\ ret' = jamo_to_hangul(lead, vowel, tail)
       /\ prev' = <<>>

\* h2j(hangul_string)
Call_h2j ==
  /\ call = ""
  /\ \E s \in Strings(TextSamples, MaxLen) :
       /\ call' = "h2j"
       /\ args' = s
       /\ ret' = h2j(s)
       /\ prev' = <<>>

\* get_jamo_class(c)
Call_get_jamo_class ==
  /\ call = ""
  /\ \E c \in CodePoints :
       /\ call' = "get_jamo_class"
       /\ args' = <<c>>
       /\ ret' = get_jamo_class(c)
       /\ prev' = <<>>

\* hcj_to_jamo(hcj_char, position)
Call_hcj_to_jamo ==
  /\ call = ""
  /\ \E c \in JamoSamples \cup Unnamed,
        position \in {"lead", "vowel", "tail", "final"} :
       /\ call' = "hcj_to_jamo"
       /\ args' = <<c, position>>
       /\ ret' = hcj_to_jamo(c, position)
       /\ prev' = <<>>

\* is_jamo_compound(character), for every character, the empty string and
\* a string of two characters
Call_is_jamo_compound ==
  /\ call = ""
  /\ \E s \in {<<c>> : c \in CodePoints} \cup {<<>>, <<4353, 4353>>} :
       /\ call' = "is_jamo_compound"
       /\ args' = s
       /\ ret' = is_jamo_compound(s)
       /\ prev' = <<>>

\* j2hcj(jamo), for every character and for short strings
Call_j2hcj ==
  /\ call = ""
  /\ \E s \in {<<c>> : c \in CodePoints} \cup Strings(HcjSamples, MaxLen) :
       /\ call' = "j2hcj"
       /\ args' = s
       /\ ret' = j2hcj(s)
       /\ prev' = <<>>

\* j2hcj(hcj) with the string the preceding j2hcj returned
Call_j2hcj_of_j2hcj ==
  /\ call = "j2hcj"
  /\ prev = <<>>
  /\ ret.exc = ""
  /\ call' = "j2hcj"
  /\ args' = ret.val
  /\ ret' = j2hcj(ret.val)
  /\ prev' = <<args>>

\* decompose_jamo(jamo, verbose, strict)
Call_decompose_jamo ==
  /\ call = ""
  /\ \E jamo \in DecomposeSamples, verbose \in BOOLEAN, strict \in BOOLEAN :
       /\ call' = "decompose_jamo"
       /\ args' = <<jamo, verbose, strict>>
       /\ ret' = decompose_jamo(jamo, verbose, strict)
       /\ prev' = <<>>

\* compose_jamo(*parts): any two letters of the dictionary, or up to
\* MaxParts arguments of PartSamples
Call_compose_jamo ==
  /\ call = ""
  /\ \E parts \in {<<PyStr(<<a>>), PyStr(<<b>>)>> : a \in DictionaryLetters,
                                                   b \in DictionaryLetters}
                    \cup Strings(PartSamples, MaxParts) :
       /\ call' = "compose_jamo"
       /\ args' = parts
       /\ ret' = compose_jamo(parts)
       /\ prev' = <<>>

\* compose_jamo(*components) with what the preceding decompose_jamo returned
Call_compose_jamo_of_decompose ==
  /\ call = "decompose_jamo"
  /\ prev = <<>>
  /\ ret.exc = ""
  /\ call' = "compose_jamo"
  /\ args' = [i \in 1..Len(ret.val) |->
                IF IsTag(ret.val[i]) THEN PyStr(ret.val[i].tag)
                ELSE PyStr(<<ret.val[i].ch>>)]
  /\ ret' = compose_jamo(args')
  /\ prev' = <<args>>

Next ==
  \/ Call_hangul_char_to_jamo
  \/ Call_jamo_to_hangul_of_split
  \/ Call_jamo_to_hangul
  \/ Call_h2j
  \/ Call_get_jamo_class
  \/ Call_hcj_to_jamo
  \/ Call_is_jamo_compound
  \/ Call_j2hcj
  \/ Call_j2hcj_of_j2hcj
  \/ Call_decompose_jamo
  \/ Call_compose_jamo
  \/ Call_compose_jamo_of_decompose

Spec == Init /\ [][Next]_vars

\* ---------------------------------------------------------------------
\* Claims
\* ---------------------------------------------------------------------

\* C1: round trip.  For every Hangul syllable S in [0xAC00, 0xD7A3], giving
\* the 2 or 3 Jamo that _hangul_char_to_jamo(S) returned to jamo_to_hangul
\* returns exactly S, and raises nothing.
C1_RoundTrip ==
  (call = "jamo_to_hangul" /\ prev # <<>>) => ret = Return("str", prev[1])

\* C1 witness: U+D55C was split into its three Jamo and composed back, and
\* so was U+AC00 (no tail); TLC reaches the first.
C1_Witness ==
  /\ call = "jamo_to_hangul"
  /\ prev = << <<54620>> >>
  /\ args = <<4370, 4449, 4523>>
  /\ ret.val = <<54620>>

C4_JamoClass ==
  (call = "get_jamo_class") =>
    LET c == args[1]
        in_lead == 4352 <= c /\ c <= 4447
        in_vowel == (4448 <= c /\ c <= 4519) \/ (12623 <= c /\ c <= 12643)
        in_tail == 4520 <= c /\ c <= 4607
        returned(class) == ret.exc = "" /\ ret.val = class
    IN  /\ returned("lead") <=> in_lead
        /\ returned("vowel") <=> in_vowel
        /\ returned("tail") <=> in_tail
        /\ (ret.exc = "InvalidJamoError") <=> ~(in_lead \/ in_vowel \/ in_tail)
        /\ ret.exc \in {"", "InvalidJamoError"}
        /\ Cardinality({k \in {"lead", "vowel", "tail"} : returned(k)}) <= 1

\* C4 witness: the lead filler U+115F was classified as a lead.
C4_Witness ==
  /\ call = "get_jamo_class"
  /\ args = <<4447>>
  /\ ret.exc = ""
  /\ ret.val = "lead"

\* The length of the result h2j owes to character c, and the place before
\* the result of the i-th character of s.
C9_PieceLen(c) ==
  IF 44032 <= c /\ c <= 55203 THEN (IF (c - 44032) % 28 = 0 THEN 2 ELSE 3) ELSE 1

RECURSIVE C9_Offset(_, _)
C9_Offset(s, i) == IF i = 1 THEN 0 ELSE C9_Offset(s, i - 1) + C9_PieceLen(s[i - 1])

\* C9: for every input string, h2j outputs the per-character results in
\* input order: a syllable contributes its lead, vowel and (if any) tail, a
\* character outside [0xAC00, 0xD7A3] appears unchanged at its position, and
\* nothing else is output; no error.
C9_InputOrder ==
  (call = "h2j") =>
    /\ ret.exc = ""
    /\ Len(ret.val) = C9_Offset(args, Len(args) + 1)
    /\ \A i \in 1..Len(args) :
         LET c == args[i]
             at == C9_Offset(args, i)
             rem == c - 44032
         IN  IF 44032 <= c /\ c <= 55203
             THEN /\ ret.val[at + 1] = 4352 + rem \div 588
                  /\ ret.val[at + 2] = 4449 + (rem % 588) \div 28
                  /\ ((rem % 28) # 0) => ret.val[at + 3] = 4519 + (rem % 28)
             ELSE ret.val[at + 1] = c

\* C9 witness: "a", U+D55C, U+AC00 came out as "a", the three Jamo of the
\* first syllable, then the two Jamo of the second.
C9_Witness ==
  /\ call = "h2j"
  /\ args = <<97, 54620, 44032>>
  /\ ret.val = <<97, 4370, 4449, 4523, 4352, 4449>>

\* C3 (as claimed): a direct call jamo_to_hangul(lead, vowel, tail) raises
\* InvalidJamoError, and returns no syllable, whenever the lead does not
\* classify as lead, the vowel does not classify as vowel, or a present
\* nonzero tail does not classify as tail, only an HCJ letter being first
\* resolved to the expected class.
C3_PreconditionsEnforced ==
  (call = "jamo_to_hangul" /\ prev = <<>>) =>
    LET resolved(c, position) ==
          IF is_hcj(c) THEN hcj_to_jamo(c, position).val[1] ELSE c
        classifies(c, position) ==
          /\ get_jamo_class(resolved(c, position)).exc = ""
          /\ get_jamo_class(resolved(c, position)).val = position
        tail_given == Len(args) = 3 /\ args[3] # 0
    IN  (\/ ~classifies(args[1], "lead")
         \/ ~classifies(args[2], "vowel")
         \/ (tail_given /\ ~classifies(args[3], "tail")))
        => ret.exc = "InvalidJamoError"

\* C7 (as claimed): is_jamo_compound(c) is true exactly for the Jamo and HCJ
\* characters whose name contains a hyphen, SSANG, KAPYEOUN, W, YEORINHIEUH,
\* YI, OE or ARAEAE.
C7_MarkersWithYeorinhieuh ==
  (call = "is_jamo_compound" /\ Len(args) = 1) =>
    (ret.val <=>
      /\ is_jamo(args[1])
      /\ \E marker \in { <<"-">>, SSANG, KAPYEOUN, <<"W">>,
                          <<"Y","E","O","R","I","N","H","I","E","U","H">>,
                          <<"Y","I">>, <<"O","E">>, ARAEAE } :
            Contains(UnicodeName(args[1]), marker))

\* C7 (amended): is_jamo_compound(c) is true exactly for the Jamo and HCJ
\* characters whose name contains a hyphen, SSANG, KAPYEOUN, W, YI, OE or
\* ARAEAE (YEORINHIEUH is no marker), false for every other character, and
\* it raises nothing.
C7_Markers ==
  (call = "is_jamo_compound" /\ Len(args) = 1) =>
    /\ ret.exc = ""
    /\ ret.val <=>
         /\ is_jamo(args[1])
         /\ \E marker \in { <<"-">>, SSANG, KAPYEOUN, <<"W">>,
                             <<"Y","I">>, <<"O","E">>, ARAEAE } :
               Contains(UnicodeName(args[1]), marker)

\* C7 witness: U+116A (HANGUL JUNGSEONG WA), whose only marker is W, was
\* found to be a compound.
C7_Witness ==
  /\ call = "is_jamo_compound"
  /\ args = <<4458>>
  /\ ret = Return("bool", TRUE)

\* C8: the conversion of a valid Jamo character to HCJ raises nothing, and
\* converting the result of a conversion again returns that result.
C8_Idempotent ==
  /\ (call = "j2hcj" /\ Len(args) = 1 /\ is_jamo(args[1])) => ret.exc = ""
  /\ (call = "j2hcj" /\ prev # <<>>) => ret = Return("str", args)

\* C8 witness: the lead U+1100 became the HCJ letter U+3131, which the
\* second conversion returned unchanged.
C8_Witness ==
  /\ call = "j2hcj"
  /\ prev = << <<4352>> >>
  /\ args = <<12593>>
  /\ ret = Return("str", <<12593>>)

\* The characters of the components decompose_jamo returned
C5_ComponentChars(components) == [i \in 1..Len(components) |-> components[i].ch]

C6_TypeError ==
  (call = "compose_jamo"
     /\ \/ Len(args) \notin {2, 3}
        \/ \E i \in 1..Len(args) : ~(args[i].type = "str" /\ Len(args[i].v) = 1))
    => ret = Raise("TypeError")

\* The tokens of the last word of a name, each token that starts with SSANG
\* replaced where it stands by two copies of the token without SSANG.
RECURSIVE C10_Expand(_)
C10_Expand(tokens) ==
  IF tokens = <<>> THEN <<>>
  ELSE IF StartsAt(Head(tokens), SSANG, 1)
  THEN <<Remove(Head(tokens), SSANG), Remove(Head(tokens), SSANG)>>
         \o C10_Expand(Tail(tokens))
  ELSE <<Head(tokens)>> \o C10_Expand(Tail(tokens))

\* C10: when decompose_jamo takes the name-based fallback, it returns, and
\* the characters returned are named, in this order, by the first two words
\* of the character's name followed by each token of the last word split on
\* hyphens, a token that starts with SSANG standing for two adjacent copies
\* of the token without it.
C10_LeftToRight ==
  (call = "decompose_jamo"
     /\ is_jamo(args[1])
     /\ LET by_tables == decompose_by_tables(args[1], args[2])
        IN  by_tables.exc = "" /\ fallback_taken(by_tables, args[1]))
    => LET words == SplitWhitespace(UnicodeName(args[1]))
           tokens == C10_Expand(Split(words[3], "-"))
       IN  /\ ret.exc = ""
           /\ [i \in 1..Len(ret.val) |-> UnicodeName(ret.val[i].ch)]
                = [i \in 1..Len(tokens) |->
                     words[1] \o <<" ">> \o words[2] \o <<" ">> \o tokens[i]]

\* C11 (as claimed): whenever a direct call jamo_to_hangul(lead, vowel, tail)
\* whose arguments classify as lead, vowel and tail (an HCJ letter being
\* first resolved to its lead, vowel or tail Jamo) returns instead of
\* raising, it returns a syllable whose Jamo are the arguments in that
\* positional form: the same lead, the same vowel, and the same tail, or
\* none when no tail (or the tail U+0000) was given.  So an archaic lead,
\* vowel or tail never comes back as a syllable of other Jamo.
C11_SyllableOfArguments ==
  (call = "jamo_to_hangul" /\ prev = <<>> /\ ret.exc = "") =>
    LET resolved(c, position) ==
          IF is_hcj(c) THEN hcj_to_jamo(c, position).val[1] ELSE c
        classifies(c, position) ==
          /\ get_jamo_class(resolved(c, position)).exc = ""
          /\ get_jamo_class(resolved(c, position)).val = position
        tail_given == Len(args) = 3 /\ args[3] # 0
        given == <<resolved(args[1], "lead"), resolved(args[2], "vowel")>>
                   \o (IF tail_given THEN <<resolved(args[3], "tail")>> ELSE <<>>)
    IN  (/\ classifies(args[1], "lead")
         /\ classifies(args[2], "vowel")
         /\ (tail_given => classifies(args[3], "tail")))
        => /\ is_hangul_char(ret.val[1])
           /\ _hangul_char_to_jamo(ret.val[1]).val = given

====
